---- MODULE Spec2Model ----
(***************************************************************************)
(* Backup / import / export / sync engine of chop-chop (src/server/sync.js) *)
(* over the relational store created by src/server/index.js.               *)
(*                                                                         *)
(* The store is SQLite through better-sqlite3, which enforces foreign keys *)
(* by default (the library is built with SQLITE_DEFAULT_FOREIGN_KEYS=1 and *)
(* the repository never switches the pragma off).  Every timestamp         *)
(* (CURRENT_TIMESTAMP, new Date()) is the one abstract instant "now".      *)
(***************************************************************************)
EXTENDS Integers, Sequences, FiniteSets, TLC

(***************************************************************************)
(* Values.  A stored SQLite value and a JavaScript/JSON value are pairs    *)
(* <<tag, payload>>; numbers carry an integer payload, texts a string.     *)
(***************************************************************************)
NULL == <<"null", 0>>
IntV(n) == <<"int", n>>
RealV(n) == <<"real", n>>
TextV(s) == <<"text", s>>

JsNull == <<"null", 0>>
JsNum(n) == <<"number", n>>
JsStr(s) == <<"string", s>>

Now == "now"

\* Text that SQLite produces when a floating point number lands in a TEXT column.
NumText(n) ==
    CASE n = 0 -> "0.0" [] n = 1 -> "1.0" [] n = 2 -> "2.0" [] n = 3 -> "3.0"
      [] OTHER -> "n.0"

\* better-sqlite3 hands INTEGER and REAL back as a JavaScript number.
ToJs(v) ==
    IF v[1] \in {"int", "real"} THEN JsNum(v[2])
    ELSE IF v[1] = "text" THEN JsStr(v[2])
    ELSE JsNull

\* better-sqlite3 binds a JavaScript number as a double, a string as text.
Bind(j) ==
    IF j[1] = "number" THEN RealV(j[2])
    ELSE IF j[1] = "string" THEN TextV(j[2])
    ELSE NULL

(***************************************************************************)
(* Schema, from initializeDatabase.                                        *)
(***************************************************************************)
exportTables ==
    << "interns", "intern_files", "intern_notes", "projects",
       "project_assignments", "tasks", "events", "event_assignments",
       "weekly_reports", "settings", "activity_log" >>

\* An insertion order that would take the referencing tables first.
importOrderChildrenFirst ==
    << "activity_log", "weekly_reports", "intern_notes", "intern_files",
       "event_assignments", "events", "tasks", "project_assignments",
       "projects", "interns", "settings" >>

importOrder ==
    << "settings", "interns", "projects", "project_assignments", "tasks",
       "events", "event_assignments", "intern_files", "intern_notes",
       "weekly_reports", "activity_log" >>

TableSet == { exportTables[i] : i \in 1..Len(exportTables) }

Columns(t) ==
    CASE t = "interns" ->
           << "id", "name", "email", "phone", "department", "role",
              "university", "start_date", "end_date", "status", "notes",
              "avatar_color", "traits", "created_at", "updated_at" >>
      [] t = "intern_files" ->
           << "id", "intern_id", "filename", "original_name", "file_type",
              "file_size", "description", "uploaded_at" >>
      [] t = "intern_notes" ->
           << "id", "intern_id", "note_date", "title", "content", "category",
              "created_at", "updated_at" >>
      [] t = "projects" ->
           << "id", "name", "description", "status", "priority", "progress",
              "start_date", "due_date", "completed_date", "created_at",
              "updated_at" >>
      [] t = "project_assignments" ->
           << "id", "project_id", "intern_id", "role", "is_lead",
              "assigned_at" >>
      [] t = "tasks" ->
           << "id", "project_id", "intern_id", "title", "description",
              "status", "priority", "due_date", "completed_at", "created_at",
              "updated_at" >>
      [] t = "events" ->
           << "id", "title", "description", "event_type", "event_date",
              "start_time", "end_time", "location", "intern_id", "project_id",
              "created_at", "updated_at", "color", "recurrence_type",
              "recurrence_count", "recurrence_parent_id" >>
      [] t = "event_assignments" ->
           << "id", "event_id", "intern_id", "assigned_at" >>
      [] t = "activity_log" ->
           << "id", "action", "entity_type", "entity_id", "entity_name",
              "details", "created_at" >>
      [] t = "weekly_reports" ->
           << "id", "intern_id", "week_start", "week_end", "accomplishments",
              "challenges", "next_week_goals", "hours_worked",
              "supervisor_feedback", "rating", "created_at", "updated_at" >>
      [] t = "settings" -> << "key", "value", "updated_at" >>
      [] OTHER -> << >>

PK(t) == IF t = "settings" THEN "key" ELSE "id"

\* Column affinity: INTEGER and REAL columns; every other column is TEXT.
IntegerCols ==
    { "id", "intern_id", "project_id", "event_id", "file_size", "progress",
      "is_lead", "recurrence_count", "recurrence_parent_id", "entity_id",
      "rating" }
RealCols == { "hours_worked" }

NotNullCols(t) ==
    CASE t = "interns" -> { "name" }
      [] t = "intern_files" -> { "intern_id", "filename", "original_name" }
      [] t = "intern_notes" -> { "intern_id", "note_date", "content" }
      [] t = "projects" -> { "name" }
      [] t = "project_assignments" -> { "project_id", "intern_id" }
      [] t = "tasks" -> { "title" }
      [] t = "events" -> { "title", "event_date" }
      [] t = "event_assignments" -> { "event_id", "intern_id" }
      [] t = "activity_log" -> { "action" }
      [] t = "weekly_reports" -> { "intern_id", "week_start", "week_end" }
      [] t = "settings" -> { "value" }
      [] OTHER -> {}

\* DEFAULT clause of a column, used when an INSERT leaves the column out.
Default(t, c) ==
    CASE c \in { "created_at", "updated_at", "uploaded_at", "assigned_at" } -> TextV(Now)
      [] c = "status" -> TextV(IF t = "interns" THEN "active" ELSE "pending")
      [] c = "priority" -> TextV("medium")
      [] c = "progress" -> IntV(0)
      [] c = "role" /\ t = "project_assignments" -> TextV("contributor")
      [] c = "is_lead" -> IntV(0)
      [] c = "category" -> TextV("general")
      [] c = "event_type" -> TextV("meeting")
      [] c = "color" -> TextV("#6366f1")
      [] c = "recurrence_type" -> TextV("none")
      [] c = "recurrence_count" -> IntV(1)
      [] OTHER -> NULL

\* FOREIGN KEY clauses: referencing column, referenced table, ON DELETE action.
ForeignKeys(t) ==
    CASE t = "intern_files" ->
           { [col |-> "intern_id", parent |-> "interns", onDelete |-> "CASCADE"] }
      [] t = "intern_notes" ->
           { [col |-> "intern_id", parent |-> "interns", onDelete |-> "CASCADE"] }
      [] t = "project_assignments" ->
           { [col |-> "project_id", parent |-> "projects", onDelete |-> "CASCADE"],
             [col |-> "intern_id", parent |-> "interns", onDelete |-> "CASCADE"] }
      [] t = "tasks" ->
           { [col |-> "project_id", parent |-> "projects", onDelete |-> "SET NULL"],
             [col |-> "intern_id", parent |-> "interns", onDelete |-> "SET NULL"] }
      [] t = "events" ->
           { [col |-> "intern_id", parent |-> "interns", onDelete |-> "SET NULL"],
             [col |-> "project_id", parent |-> "projects", onDelete |-> "SET NULL"] }
      [] t = "event_assignments" ->
           { [col |-> "event_id", parent |-> "events", onDelete |-> "CASCADE"],
             [col |-> "intern_id", parent |-> "interns", onDelete |-> "CASCADE"] }
      [] t = "weekly_reports" ->
           { [col |-> "intern_id", parent |-> "interns", onDelete |-> "CASCADE"] }
      [] OTHER -> {}

\* UNIQUE clauses besides the primary key.
UniqueKeys(t) ==
    CASE t = "project_assignments" -> { << "project_id", "intern_id" >> }
      [] t = "event_assignments" -> { << "event_id", "intern_id" >> }
      [] OTHER -> {}

(***************************************************************************)
(* The store.  A database d is a record: d.rows[t] the set of rows of      *)
(* table t (a row maps each live column to a stored value), d.seq[t] the   *)
(* sqlite_sequence entry of the AUTOINCREMENT key, d.cols[t] the live      *)
(* column list (PRAGMA table_info).                                        *)
(***************************************************************************)
SeqToSet(s) == { s[i] : i \in 1..Len(s) }

\* A table-indexed function as a record (one field per table).
ByTable(f) ==
    [ interns |-> f["interns"], intern_files |-> f["intern_files"],
      intern_notes |-> f["intern_notes"], projects |-> f["projects"],
      project_assignments |-> f["project_assignments"], tasks |-> f["tasks"],
      events |-> f["events"], event_assignments |-> f["event_assignments"],
      weekly_reports |-> f["weekly_reports"], settings |-> f["settings"],
      activity_log |-> f["activity_log"] ]

Database(rows, seq, cols) == [rows |-> rows, seq |-> seq, cols |-> cols]

Max2(a, b) == IF a >= b THEN a ELSE b

\* A store without column affinity: the bound value is kept as it is.
AffinityNone(c, v) == v

\* SQLite column affinity applied to a bound value.
Affinity(c, v) ==
    IF c \in IntegerCols THEN (IF v[1] = "real" THEN IntV(v[2]) ELSE v)
    ELSE IF c \in RealCols THEN (IF v[1] = "int" THEN RealV(v[2]) ELSE v)
    ELSE IF v[1] = "real" THEN TextV(NumText(v[2]))
    ELSE v

\* ON DELETE SET NULL applied to row r of table c when the rows `keys` of t go.
SetNullRefs(r, c, t, keys) ==
    [ col \in DOMAIN r |->
        IF \E fk \in ForeignKeys(c) :
              /\ fk.parent = t /\ fk.onDelete = "SET NULL" /\ fk.col = col
              /\ r[col] \in keys
        THEN NULL ELSE r[col] ]

RECURSIVE DeleteRows(_, _, _)
RECURSIVE CascadeFrom(_, _, _, _)

\* The tables with an ON DELETE CASCADE reference to t.
Referencing(t) ==
    SelectSeq(importOrder,
              LAMBDA c : \E fk \in ForeignKeys(c) :
                             fk.parent = t /\ fk.onDelete = "CASCADE")

\* ON DELETE CASCADE into the first n of the tables that reference t.
CascadeFrom(rows, t, keys, n) ==
    IF n = 0 THEN rows
    ELSE LET before == CascadeFrom(rows, t, keys, n - 1)
             c   == Referencing(t)[n]
             hit == { r \in before[c] :
                        \E fk \in ForeignKeys(c) :
                           /\ fk.parent = t /\ fk.onDelete = "CASCADE"
                           /\ fk.col \in DOMAIN r /\ r[fk.col] \in keys }
         IN  DeleteRows(before, c, { r[PK(c)] : r \in hit })

\* Deleting the rows of t whose primary key is in keys, with the foreign key actions.
DeleteRows(rows, t, keys) ==
    IF keys = {} THEN rows
    ELSE LET nulled == ByTable(
                   [ c \in TableSet |->
                       IF c = t THEN { r \in rows[t] : r[PK(t)] \notin keys }
                       ELSE IF \E fk \in ForeignKeys(c) :
                                  fk.parent = t /\ fk.onDelete = "SET NULL"
                       THEN { SetNullRefs(r, c, t, keys) : r \in rows[c] }
                       ELSE rows[c] ])
         IN  CascadeFrom(nulled, t, keys, Len(Referencing(t)))

\* DELETE FROM t WHERE <pk> IN keys
SqlDelete(d, t, keys) == Database(DeleteRows(d.rows, t, keys), d.seq, d.cols)

\* UPDATE t SET <set> for the rows `which` (no key column is set).
SqlUpdate(d, t, which, set) ==
    Database(
        ByTable([ x \in TableSet |->
                    IF x = t
                    THEN (d.rows[t] \ which) \cup
                         { [ c \in DOMAIN r |-> IF c \in DOMAIN set THEN set[c] ELSE r[c] ]
                           : r \in which }
                    ELSE d.rows[x] ]),
        d.seq, d.cols)

\* The conflict target of a UNIQUE clause: equal and non-NULL in every column.
UniqueClash(t, r, row) ==
    \E u \in UniqueKeys(t) :
       \A i \in 1..Len(u) :
          /\ u[i] \in DOMAIN r /\ u[i] \in DOMAIN row
          /\ row[u[i]] # NULL /\ r[u[i]] = row[u[i]]

\* The row an INSERT [OR REPLACE] INTO t (DOMAIN vals) VALUES (vals) stores:
\* bound values under the column affinity, defaults for the columns not named,
\* the next AUTOINCREMENT key for a NULL key; REPLACE resolves a NOT NULL
\* conflict with the column default, if there is one.
Supplied(t, vals, c) ==
    IF c \in DOMAIN vals THEN Affinity(c, Bind(vals[c]))
    ELSE IF c = PK(t) THEN NULL ELSE Default(t, c)

\* A statement that would take the next AUTOINCREMENT key whatever key is supplied.
KeyedFresh(d, t, vals, c) ==
    IF c = PK(t) /\ t # "settings" THEN IntV(d.seq[t] + 1) ELSE Supplied(t, vals, c)

Keyed(d, t, vals, c) ==
    IF c = PK(t) /\ t # "settings" /\ Supplied(t, vals, c) = NULL
    THEN IntV(d.seq[t] + 1)
    ELSE Supplied(t, vals, c)

NewRow(d, t, vals, orReplace) ==
    [ c \in SeqToSet(d.cols[t]) |->
        IF /\ orReplace /\ c \in NotNullCols(t) /\ Default(t, c) # NULL
           /\ Keyed(d, t, vals, c) = NULL
        THEN Default(t, c) ELSE Keyed(d, t, vals, c) ]

\* The rows of t the new row conflicts with: same key, or same UNIQUE columns.
Conflicts(d, t, row) ==
    { r \in d.rows[t] : r[PK(t)] = row[PK(t)] \/ UniqueClash(t, r, row) }

\* A constraint the statement fails on whatever the conflict clause.
Malformed(d, t, row) ==
    \/ PK(t) \notin DOMAIN row
    \/ t # "settings" /\ row[PK(t)][1] # "int"
    \/ \E c \in NotNullCols(t) \cap DOMAIN row : row[c] = NULL

\* A foreign key of the row without its parent among `rows`.
Orphan(t, row, rows) ==
    \E fk \in ForeignKeys(t) :
       /\ fk.col \in DOMAIN row /\ row[fk.col] # NULL
       /\ ~ \E p \in rows[fk.parent] : p[PK(fk.parent)] = row[fk.col]

Failed(d) == [ok |-> FALSE, db |-> d, id |-> NULL]

\* The row stored among `cleared`, the rows left once the conflicts are resolved.
Store(d, t, row, cleared) ==
    IF Orphan(t, row, cleared) THEN Failed(d)
    ELSE [ ok |-> TRUE,
           db |-> Database(
                    ByTable([ x \in TableSet |->
                                IF x = t THEN cleared[t] \cup {row} ELSE cleared[x] ]),
                    ByTable([ x \in TableSet |->
                                IF x = t /\ t # "settings"
                                THEN Max2(d.seq[t], row[PK(t)][2])
                                ELSE d.seq[x] ]),
                    d.cols),
           id |-> row[PK(t)] ]

\* The statement for a row already built: plain INSERT fails on a conflict,
\* REPLACE deletes the conflicting rows first (with their foreign key actions).
InsertRow(d, t, row, orReplace) ==
    IF Malformed(d, t, row) THEN Failed(d)
    ELSE IF ~orReplace
    THEN (IF Conflicts(d, t, row) # {} THEN Failed(d) ELSE Store(d, t, row, d.rows))
    ELSE Store(d, t, row,
               DeleteRows(d.rows, t, { r[PK(t)] : r \in Conflicts(d, t, row) }))

\* INSERT [OR REPLACE] INTO t (DOMAIN vals) VALUES (vals): [ok, db, id].
\* A failed statement (no such table, no such column, a constraint) leaves the
\* database as it was.
SqlInsert(d, t, vals, orReplace) ==
    IF d.cols[t] = << >> \/ ~(DOMAIN vals \subseteq SeqToSet(d.cols[t])) THEN Failed(d)
    ELSE InsertRow(d, t, NewRow(d, t, vals, orReplace), orReplace)

\* The order of SELECT * FROM t: ascending rowid.  settings has a hidden rowid;
\* its rows are taken in one fixed order.
RowBefore(t, a, b) ==
    IF t = "settings" THEN a = b \/ a = (CHOOSE r \in {a, b} : TRUE)
    ELSE a[PK(t)][2] <= b[PK(t)][2]

RECURSIVE SelectAll(_, _)
SelectAll(S, t) ==
    IF S = {} THEN << >>
    ELSE LET m == CHOOSE r \in S : \A o \in S : RowBefore(t, r, o)
         IN  << m >> \o SelectAll(S \ {m}, t)

(***************************************************************************)
(* Snapshot documents.  doc.tables maps table names to entries             *)
(* [array |-> is it a JSON array, rows |-> its rows]; a row maps its keys  *)
(* to JSON values.  hasTables is FALSE for a document without `tables`.    *)
(***************************************************************************)
getTableColumns(d, t) == IF t \in DOMAIN d.cols THEN d.cols[t] ELSE << >>

ExportRow(r) == [ c \in DOMAIN r |-> ToJs(r[c]) ]

\* SELECT * FROM t; a failing read (no such table) yields [].
ExportTable(d, t) ==
    IF getTableColumns(d, t) = << >> THEN << >>
    ELSE LET rs == SelectAll(d.rows[t], t)
         IN  [ i \in 1..Len(rs) |-> ExportRow(rs[i]) ]

\* The export as it would be if a table whose read fails were left out.
exportLiveTables(d) ==
    [ exportedAt |-> Now,
      version    |-> "1.0",
      hasTables  |-> TRUE,
      tables     |-> [ t \in { x \in TableSet : getTableColumns(d, x) # << >> } |->
                         [array |-> TRUE, rows |-> ExportTable(d, t)] ] ]

exportDatabaseData(d) ==
    [ exportedAt |-> Now,
      version    |-> "1.0",
      hasTables  |-> TRUE,
      tables     |-> [ t \in TableSet |-> [array |-> TRUE, rows |-> ExportTable(d, t)] ] ]

\* The row's columns as they would be without the filter.
FilterColumnsNone(row, validColumns) == DOMAIN row

\* rowColumns.filter(col => validColumns.includes(col))
FilterColumns(row, validColumns) == DOMAIN row \cap SeqToSet(validColumns)

\* counts[t] = n
Count(counts, t, n) == (t :> n) @@ counts

\* result.skipped[table]++ and result.imported[table]++
Skip(st, t) == [st EXCEPT !.skipped = Count(@, t, @[t] + 1)]
Import(st, t, d) == [st EXCEPT !.db = d, !.imported = Count(@, t, @[t] + 1)]

\* The end of the try block of one row: counted as imported, or the catch.
Ran(st, t, ins) ==
    IF ins.ok THEN Import(st, t, ins.db)
    ELSE Skip([st EXCEPT !.errors = Append(@, << "row", t >>)], t)

\* The iteration as it would be if the first row error ended the import.
ImportRowHalting(st, t, row, merge) ==
    IF st.errors # << >> THEN st
    ELSE IF FilterColumns(row, getTableColumns(st.db, t)) = {}
    THEN Skip(st, t)
    ELSE Ran(st, t,
             SqlInsert(st.db, t,
                       [ c \in FilterColumns(row, getTableColumns(st.db, t)) |-> row[c] ],
                       merge))

\* The iteration as it would be with a plain INSERT under either policy: a row
\* whose key is in the store already fails and is skipped.
ImportRowKeepingLocal(st, t, row, merge) ==
    IF FilterColumns(row, getTableColumns(st.db, t)) = {}
    THEN Skip(st, t)
    ELSE Ran(st, t,
             SqlInsert(st.db, t,
                       [ c \in FilterColumns(row, getTableColumns(st.db, t)) |-> row[c] ],
                       FALSE))

\* One iteration of `for (const row of rows)`; st = [db, imported, skipped, errors].
ImportRow(st, t, row, merge) ==
    IF FilterColumns(row, getTableColumns(st.db, t)) = {}
    THEN Skip(st, t)
    ELSE Ran(st, t,
             SqlInsert(st.db, t,
                       [ c \in FilterColumns(row, getTableColumns(st.db, t)) |-> row[c] ],
                       merge))

\* The first n iterations of `for (const row of rows)`.
RECURSIVE ImportRows(_, _, _, _, _)
ImportRows(st, t, rows, n, merge) ==
    IF n = 0 THEN st
    ELSE ImportRow(ImportRows(st, t, rows, n - 1, merge), t, rows[n], merge)

\* result.imported[table] = 0; result.skipped[table] = 0
Zeroed(st, t) == [st EXCEPT !.imported = Count(@, t, 0), !.skipped = Count(@, t, 0)]

\* One iteration of `for (const table of importOrder)`.
ImportTable(st, data, t, merge) ==
    IF t \notin DOMAIN data.tables \/ ~data.tables[t].array
    THEN st
    ELSE IF getTableColumns(st.db, t) = << >>
    THEN [Zeroed(st, t) EXCEPT !.errors = Append(@, << "no table", t >>)]
    ELSE ImportRows(Zeroed(st, t), t, data.tables[t].rows,
                    Len(data.tables[t].rows), merge)

\* The first n iterations of `for (const table of importOrder)`.
RECURSIVE ImportTables(_, _, _, _)
ImportTables(st, data, n, merge) ==
    IF n = 0 THEN st
    ELSE ImportTable(ImportTables(st, data, n - 1, merge), data, importOrder[n], merge)

\* [...importOrder].reverse()
ClearOrder == [ i \in 1..Len(importOrder) |-> importOrder[Len(importOrder) + 1 - i] ]

\* The loop as it would be if a failing DELETE ended the clearing.
RECURSIVE ClearTablesStopping(_, _)
ClearTablesStopping(d, n) ==
    IF n = 0 THEN d
    ELSE IF \E j \in 1..n : getTableColumns(d, ClearOrder[j]) = << >>
    THEN ClearTablesStopping(d, n - 1)
    ELSE SqlDelete(ClearTablesStopping(d, n - 1), ClearOrder[n],
                   { r[PK(ClearOrder[n])] : r \in d.rows[ClearOrder[n]] })

\* The first n iterations of the replace-mode loop: DELETE FROM t over the
\* reversed importOrder; a failing DELETE (no such table) is ignored.
RECURSIVE ClearTables(_, _)
ClearTables(d, n) ==
    IF n = 0 THEN d
    ELSE LET before == ClearTables(d, n - 1)
             t == ClearOrder[n]
         IN  IF getTableColumns(before, t) = << >> THEN before
             ELSE SqlDelete(before, t, { r[PK(t)] : r \in before.rows[t] })

NoCounts == [ x \in {} |-> 0 ]

\* The body as it would be without the replace-mode DELETE loop.
ImportWithoutClearing(d, data, merge) ==
    ImportTables([db |-> d, imported |-> NoCounts, skipped |-> NoCounts,
                  errors |-> << >>], data, Len(importOrder), merge)

\* The body handed to db.transaction(...).
ImportTransaction(d, data, merge) ==
    LET start == IF merge THEN d ELSE ClearTables(d, Len(importOrder))
    IN  ImportTables([db |-> start, imported |-> NoCounts, skipped |-> NoCounts,
                      errors |-> << >>], data, Len(importOrder), merge)

InvalidFormat ==
    [success |-> FALSE, imported |-> NoCounts, skipped |-> NoCounts,
     errors |-> << << "invalid", "missing tables" >> >>]

\* The result object once transaction() returned or threw.
Result(st, threw) ==
    [success |-> ~threw, imported |-> st.imported, skipped |-> st.skipped,
     errors |-> IF threw THEN Append(st.errors, << "transaction", "failed" >>)
                ELSE st.errors]

\* Without a transaction around the loops a throwing driver would leave the
\* writes made so far in place.
Unprotected(d, st, driverThrows) == [db |-> st.db, result |-> Result(st, driverThrows)]

importWithoutRollback(d, data, merge, driverThrows) ==
    IF ~data.hasTables THEN [db |-> d, result |-> InvalidFormat]
    ELSE Unprotected(d, ImportTransaction(d, data, merge), driverThrows)

\* transaction(): st is what the body did; a throw rolls the store back to d.
Transaction(d, st, driverThrows) ==
    [db |-> IF driverThrows THEN d ELSE st.db, result |-> Result(st, driverThrows)]

\* The import as it would be if the replace-mode clearing ran before the
\* check of the format.
importClearingFirst(d, data, merge, driverThrows) ==
    IF ~data.hasTables
    THEN [db |-> IF merge THEN d ELSE ClearTables(d, Len(importOrder)),
          result |-> InvalidFormat]
    ELSE Transaction(d, ImportTransaction(d, data, merge), driverThrows)

\* importDatabaseData(db, data, {merge}); driverThrows is the transaction driver
\* failing (BEGIN/COMMIT), on which better-sqlite3 rolls back and rethrows.
\* Yields [db, result].
importDatabaseData(d, data, merge, driverThrows) ==
    IF ~data.hasTables THEN [db |-> d, result |-> InvalidFormat]
    ELSE Transaction(d, ImportTransaction(d, data, merge), driverThrows)

(***************************************************************************)
(* The data-entry handlers of index.js that feed the store.  Request       *)
(* bodies carry the named field and JSON null for every optional field.    *)
(***************************************************************************)
Names == { "a", "b" }

\* initializeDatabase on a new file: every table empty but for the default traits.
InitialDatabase ==
    LET empty == Database(ByTable([ t \in TableSet |-> {} ]),
                          ByTable([ t \in TableSet |-> 0 ]),
                          ByTable([ t \in TableSet |-> Columns(t) ]))
    IN  SqlInsert(empty, "settings",
                  [ c \in {"key", "value"} |->
                      IF c = "key" THEN JsStr("intern_traits") ELSE JsStr("traits") ],
                  FALSE).db

\* saveCredentialsToDatabase: INSERT ... ON CONFLICT(key) DO UPDATE.
saveCredentialsToDatabase(d) ==
    LET old == { r \in d.rows["settings"] : r["key"] = TextV("google_oauth_credentials") }
    IN  IF old = {}
        THEN SqlInsert(d, "settings",
                       [ c \in {"key", "value", "updated_at"} |->
                           IF c = "key" THEN JsStr("google_oauth_credentials")
                           ELSE IF c = "value" THEN JsStr("credentials") ELSE JsStr(Now) ],
                       FALSE).db
        ELSE SqlUpdate(d, "settings", old,
                       [ c \in {"value", "updated_at"} |->
                           IF c = "value" THEN TextV("credentials") ELSE TextV(Now) ])

\* logActivity: INSERT INTO activity_log (action, entity_type, entity_id,
\* entity_name, details).
logActivity(d, action, entityType, entityId, entityName) ==
    SqlInsert(d, "activity_log",
              [ c \in {"action", "entity_type", "entity_id", "entity_name", "details"} |->
                  CASE c = "action" -> JsStr(action)
                    [] c = "entity_type" -> JsStr(entityType)
                    [] c = "entity_id" -> entityId
                    [] c = "entity_name" -> entityName
                    [] OTHER -> JsNull ],
              FALSE).db

\* The tail of a POST handler: logActivity('created', type, lastInsertRowid,
\* name) after the INSERT, or the catch (500) with the store as it was.
Logged(d, ins, action, entityType, entityName) ==
    IF ins.ok THEN logActivity(ins.db, action, entityType, ToJs(ins.id), entityName)
    ELSE d

\* POST /api/interns
CreateIntern(d, name) ==
    LET ins == SqlInsert(d, "interns",
                   [ c \in {"name", "email", "phone", "department", "role", "university",
                            "start_date", "end_date", "status", "notes", "avatar_color"} |->
                       CASE c = "name" -> JsStr(name)
                         [] c = "status" -> JsStr("active")
                         [] c = "avatar_color" -> JsStr("#6366f1")
                         [] OTHER -> JsNull ],
                   FALSE)
    IN  Logged(d, ins, "created", "intern", JsStr(name))

\* PUT /api/interns/:id with body {name}
UpdateIntern(d, id, name) ==
    LET existing == { r \in d.rows["interns"] : r["id"] = IntV(id) }
    IN  IF existing = {} THEN d
        ELSE logActivity(
               SqlUpdate(d, "interns", existing,
                         [ c \in {"name", "updated_at"} |->
                             IF c = "name" THEN TextV(name) ELSE TextV(Now) ]),
               "updated", "intern", JsNum(id), JsStr(name))

\* DELETE /api/interns/:id
DeleteIntern(d, id) ==
    LET existing == { r \in d.rows["interns"] : r["id"] = IntV(id) }
    IN  IF existing = {} THEN d
        ELSE logActivity(SqlDelete(d, "interns", { IntV(id) }),
                         "deleted", "intern", JsNum(id),
                         ToJs((CHOOSE r \in existing : TRUE)["name"]))

\* POST /api/reports
CreateReport(d, internId, hours) ==
    LET ins == SqlInsert(d, "weekly_reports",
                   [ c \in {"intern_id", "week_start", "week_end", "accomplishments",
                            "challenges", "next_week_goals", "hours_worked",
                            "supervisor_feedback", "rating"} |->
                       CASE c = "intern_id" -> JsNum(internId)
                         [] c \in {"week_start", "week_end"} -> JsStr(Now)
                         [] c = "hours_worked" -> JsNum(hours)
                         [] OTHER -> JsNull ],
                   FALSE)
    IN  Logged(d, ins, "created", "report", JsStr("Weekly report"))

\* DELETE /api/reports/:id
DeleteReport(d, id) ==
    LET existing == { r \in d.rows["weekly_reports"] : r["id"] = IntV(id) }
    IN  IF existing = {} THEN d
        ELSE SqlDelete(d, "weekly_reports", { IntV(id) })

\* assignStmt.run(projectId, internId, 0): acc = [ok, db], where ok says that
\* no earlier statement threw.
Kept(ins) == [ok |-> ins.ok, db |-> ins.db]

AssignNext(acc, projectId, internId) ==
    IF ~acc.ok THEN acc
    ELSE Kept(SqlInsert(acc.db, "project_assignments",
                        [ c \in {"project_id", "intern_id", "is_lead"} |->
                            CASE c = "project_id" -> projectId
                              [] c = "intern_id" -> JsNum(internId)
                              [] OTHER -> JsNum(0) ],
                        FALSE))

\* The first n iterations of intern_ids.forEach.
RECURSIVE AssignInterns(_, _, _, _)
AssignInterns(d, projectId, internIds, n) ==
    IF n = 0 THEN [ok |-> TRUE, db |-> d]
    ELSE AssignNext(AssignInterns(d, projectId, internIds, n - 1), projectId, internIds[n])

ProjectAssigned(asg, projectId, name) ==
    IF ~asg.ok THEN asg.db
    ELSE logActivity(asg.db, "created", "project", projectId, JsStr(name))

ProjectInserted(d, ins, name, internIds) ==
    IF ~ins.ok THEN d
    ELSE ProjectAssigned(AssignInterns(ins.db, ToJs(ins.id), internIds, Len(internIds)),
                         ToJs(ins.id), name)

\* POST /api/projects with body {name, intern_ids}; the inserts are not one
\* transaction, so a failing assignment leaves the project and logs nothing.
CreateProject(d, name, internIds) ==
    ProjectInserted(d,
        SqlInsert(d, "projects",
                  [ c \in {"name", "description", "status", "priority", "progress",
                           "start_date", "due_date"} |->
                      CASE c = "name" -> JsStr(name)
                        [] c = "status" -> JsStr("pending")
                        [] c = "priority" -> JsStr("medium")
                        [] c = "progress" -> JsNum(0)
                        [] OTHER -> JsNull ],
                  FALSE),
        name, internIds)

\* POST /api/tasks; internId and projectId are JSON values (a number or null).
CreateTask(d, title, internId, projectId) ==
    LET ins == SqlInsert(d, "tasks",
                   [ c \in {"title", "description", "status", "priority", "due_date",
                            "intern_id", "project_id"} |->
                       CASE c = "title" -> JsStr(title)
                         [] c = "status" -> JsStr("pending")
                         [] c = "priority" -> JsStr("medium")
                         [] c = "intern_id" -> internId
                         [] c = "project_id" -> projectId
                         [] OTHER -> JsNull ],
                   FALSE)
    IN  Logged(d, ins, "created", "task", JsStr(title))

(***************************************************************************)
(* The sync routes.  Every `await` of a remote call is a suspension point: *)
(* a request is a small state machine whose steps run between them.        *)
(***************************************************************************)
MaxRequests == 2     \* requests to the sync routes in one behaviour
MaxEdits == 1        \* data-entry requests in one behaviour

Requests == 1..MaxRequests

VARIABLES
    db,        \* the local store
    token,     \* the token file: "none", "valid", "wrongscope", "noscope"
    remote,    \* the backup objects in the appDataFolder: [id, content]
    nextId,    \* the id Drive gives the next created object
    req,       \* the requests: op, program counter, locals, response
    edits,     \* data-entry requests served so far
    peer       \* the account's other device: its store, token file, requests

vars == << db, token, remote, nextId, req, edits, peer >>

EmptyFn == [ x \in {} |-> 0 ]

\* An object of the hidden area named chop-chop-backup.json.
File(id, content) == [id |-> id, content |-> content]

\* A local that holds no document.
NoDoc == [exportedAt |-> "", version |-> "", hasTables |-> FALSE, tables |-> EmptyFn]
\* A stored object that is JSON but no snapshot (no `tables` key).
MalformedDoc == [exportedAt |-> Now, version |-> "0", hasTables |-> FALSE, tables |-> EmptyFn]

NoRows == ByTable([ t \in TableSet |-> {} ])
NoResult == [success |-> FALSE, imported |-> NoCounts, skipped |-> NoCounts, errors |-> << >>]
\* The JSON answer: status, error, and the fields of the success bodies
\* (result is the import result, or sync's pullResult; file is the id of the
\* uploaded object; summary is preview's `tables`).
NoResponse ==
    [status |-> 0, error |-> "", pulled |-> FALSE, pushed |-> FALSE,
     backupExisted |-> FALSE, hasPullResult |-> FALSE, result |-> NoResult, file |-> 0,
     summary |-> NoCounts]

\* A request: the route, where it is suspended, its locals (the body's merge
\* flag, the object found, the document to upload), the error.code it caught,
\* its response.
IdleRequest ==
    [op |-> "none", merge |-> FALSE, pc |-> "idle", fileId |-> 0,
     doc |-> NoDoc, err |-> 0, resp |-> NoResponse]

\* A device of the account: the store, the token file and the requests of its
\* server.
Device(d, tok, rq) == [db |-> d, token |-> tok, req |-> rq]

\* loadCredentialsFromDatabase / createOAuth2Client; process.env carries no credentials.
loadCredentialsFromDatabase(d) ==
    \E r \in d.rows["settings"] :
        r["key"] = TextV("google_oauth_credentials") /\ r["value"] # NULL
createOAuth2Client(d) == loadCredentialsFromDatabase(d)

\* loadSavedToken: the token it returns (or "none") and the token file afterwards.
loadSavedToken(tok) ==
    IF tok = "wrongscope" THEN [token |-> "none", file |-> "none"]
    ELSE [token |-> tok, file |-> tok]

\* getAuthenticatedClient: is there a client, and the token file afterwards.
getAuthenticatedClient(d, tok) ==
    IF ~createOAuth2Client(d) THEN [client |-> FALSE, file |-> tok]
    ELSE [client |-> loadSavedToken(tok).token # "none", file |-> loadSavedToken(tok).file]

\* GET /api/sync/status: the `connected` field.
StatusConnected(d, tok) == createOAuth2Client(d) /\ loadSavedToken(tok).token # "none"

\* res.status(status).json({error}) or res.json(...): the handler is over, its
\* locals are gone.
Finished(q, resp) == [IdleRequest EXCEPT !.op = q.op, !.pc = "done", !.resp = resp]

Respond(q, status, error) ==
    Finished(q, [NoResponse EXCEPT !.status = status, !.error = error])

(***************************************************************************)
(* Data entry.                                                             *)
(***************************************************************************)
InternIds(d) == { r["id"][2] : r \in d.rows["interns"] }
ProjectIds(d) == { r["id"][2] : r \in d.rows["projects"] }

Edit(d) ==
    /\ edits < MaxEdits
    /\ db' = d
    /\ edits' = edits + 1
    /\ UNCHANGED << token, remote, nextId, req, peer >>

PostIntern == \E name \in Names : Edit(CreateIntern(db, name))

PutIntern ==
    \E id \in InternIds(db), name \in Names : Edit(UpdateIntern(db, id, name))

DeleteInternReq == \E id \in InternIds(db) : Edit(DeleteIntern(db, id))

PostReport == \E id \in InternIds(db) : Edit(CreateReport(db, id, 5))

ReportIds(d) == { r["id"][2] : r \in d.rows["weekly_reports"] }

DeleteReportReq == \E id \in ReportIds(db) : Edit(DeleteReport(db, id))

PostProject ==
    \E ids \in {<< >>} \cup { << i >> : i \in InternIds(db) } :
        Edit(CreateProject(db, "a", ids))

PostTask ==
    \E i \in {JsNull} \cup { JsNum(x) : x \in InternIds(db) },
       p \in {JsNull} \cup { JsNum(x) : x \in ProjectIds(db) } :
        Edit(CreateTask(db, "a", i, p))

(***************************************************************************)
(* Requests to the sync routes.  Slots are taken in order.                 *)
(***************************************************************************)
ErrorCodes == { 401, 500 }      \* error.code of a failing remote call
RemotePcs == { "dl_find", "dl_get", "up_find", "up_update", "up_create" }

CanStart(r) ==
    /\ req[r].pc = "idle"
    /\ \A o \in Requests : o < r => req[o].pc # "idle"

SetReq(r, q) == req' = [req EXCEPT ![r] = q]

\* The push phase as it would be if it exported a freshly initialised store
\* instead of the open one.
PushPhaseFresh(q, d) ==
    [q EXCEPT !.pc = "up_find", !.doc = exportDatabaseData(InitialDatabase)]

\* exportDatabaseData(db) followed by the call of uploadToGoogleDrive, which
\* suspends in findBackupFile.
PushPhase(q, d) ==
    [q EXCEPT !.pc = "up_find", !.doc = exportDatabaseData(d)]

\* POST /api/sync/export up to its first await
StartExport(r) ==
    LET auth == getAuthenticatedClient(db, token)
        q    == [IdleRequest EXCEPT !.op = "export"]
    IN  /\ CanStart(r)
        /\ token' = auth.file
        /\ SetReq(r, IF auth.client THEN PushPhase(q, db)
                     ELSE Respond(q, 401, "Not connected to Google Drive"))
        /\ UNCHANGED << db, remote, nextId, edits, peer >>

\* GET /api/sync/preview, POST /api/sync/import, POST /api/sync/sync up to the
\* first await (findBackupFile inside downloadFromGoogleDrive)
StartDownload(r, op, merge) ==
    LET auth == getAuthenticatedClient(db, token)
        q    == [IdleRequest EXCEPT !.op = op, !.merge = merge]
    IN  /\ CanStart(r)
        /\ token' = auth.file
        /\ SetReq(r, IF auth.client THEN [q EXCEPT !.pc = "dl_find"]
                     ELSE Respond(q, 401, "Not connected to Google Drive"))
        /\ UNCHANGED << db, remote, nextId, edits, peer >>

StartPreview(r) == StartDownload(r, "preview", FALSE)
StartImport(r) == \E merge \in BOOLEAN : StartDownload(r, "import", merge)
StartSync(r) == StartDownload(r, "sync", TRUE)

\* findBackupFile: files.list answers; files[0] is any of the objects found.
FoundFiles == IF remote = {} THEN { 0 } ELSE { f.id : f \in remote }

\* downloadFromGoogleDrive after its files.list: null, or on to files.get.
DownloadFind(r) ==
    /\ req[r].pc = "dl_find"
    /\ \E id \in FoundFiles :
          SetReq(r,
             IF id # 0 THEN [req[r] EXCEPT !.pc = "dl_get", !.fileId = id]
             ELSE IF req[r].op = "sync" THEN PushPhase(req[r], db)
             ELSE Respond(req[r], 404, "No backup found in Google Drive"))
    /\ UNCHANGED << db, token, remote, nextId, edits, peer >>

Content(id) == (CHOOSE f \in remote : f.id = id).content

\* The preview as it would be if it counted the rows of the arrays only and
\* left the other entries out.
SummaryOfArrays(data) ==
    [ t \in { x \in DOMAIN data.tables : data.tables[x].array } |->
        Len(data.tables[t].rows) ]

\* summary.tables[table] = Array.isArray(rows) ? rows.length : 0, over the
\* entries of data.tables || {}
Summary(data) ==
    [ t \in DOMAIN data.tables |->
        IF data.tables[t].array THEN Len(data.tables[t].rows) ELSE 0 ]

\* GET /api/sync/preview after files.get
PreviewGot(r) ==
    /\ req[r].pc = "dl_get" /\ req[r].op = "preview"
    /\ SetReq(r, Finished(req[r], [NoResponse EXCEPT
                                     !.status = 200,
                                     !.summary = Summary(Content(req[r].fileId))]))
    /\ UNCHANGED << db, token, remote, nextId, edits, peer >>

\* POST /api/sync/import after files.get: importDatabaseData and the response
ImportGot(r) ==
    /\ req[r].pc = "dl_get" /\ req[r].op = "import"
    /\ \E driverThrows \in BOOLEAN :
          /\ Content(req[r].fileId).hasTables \/ ~driverThrows
          /\ \E res \in { importDatabaseData(db, Content(req[r].fileId), req[r].merge,
                                              driverThrows) } :
                /\ db' = res.db
                /\ SetReq(r, Finished(req[r], [NoResponse EXCEPT !.status = 200,
                                                                  !.result = res.result]))
    /\ UNCHANGED << token, remote, nextId, edits, peer >>

\* result.backupExisted = true; result.pullResult = importDatabaseData(...);
\* result.pulled = pullResult.success
Pulled(q, result) ==
    [q EXCEPT !.resp = [@ EXCEPT !.backupExisted = TRUE, !.pulled = result.success,
                                 !.hasPullResult = TRUE, !.result = result]]

\* The sync route as it would be with the export taken before the pull.
SyncGotStale(r) ==
    /\ req[r].pc = "dl_get" /\ req[r].op = "sync"
    /\ \E driverThrows \in BOOLEAN :
          /\ Content(req[r].fileId).hasTables \/ ~driverThrows
          /\ \E res \in { importDatabaseData(db, Content(req[r].fileId), TRUE,
                                              driverThrows) } :
                /\ db' = res.db
                /\ SetReq(r, PushPhase(Pulled(req[r], res.result), db))
    /\ UNCHANGED << token, remote, nextId, edits, peer >>

\* The sync route as it would be if a failed pull ended the request.
SyncGotAbort(r) ==
    /\ req[r].pc = "dl_get" /\ req[r].op = "sync"
    /\ \E driverThrows \in BOOLEAN :
          /\ Content(req[r].fileId).hasTables \/ ~driverThrows
          /\ \E res \in { importDatabaseData(db, Content(req[r].fileId), TRUE,
                                              driverThrows) } :
                /\ db' = res.db
                /\ SetReq(r, IF res.result.success
                             THEN PushPhase(Pulled(req[r], res.result), res.db)
                             ELSE Respond(req[r], 500, "pull failed"))
    /\ UNCHANGED << token, remote, nextId, edits, peer >>

\* The sync route as it would be if it were suspended between the pull and the
\* export and a data-entry request were served meanwhile.
SyncGotInterrupted(r) ==
    /\ req[r].pc = "dl_get" /\ req[r].op = "sync"
    /\ \E driverThrows \in BOOLEAN :
          /\ Content(req[r].fileId).hasTables \/ ~driverThrows
          /\ \E res \in { importDatabaseData(db, Content(req[r].fileId), TRUE,
                                              driverThrows) } :
                /\ db' = CreateIntern(res.db, "b")
                /\ SetReq(r, PushPhase(Pulled(req[r], res.result),
                                       CreateIntern(res.db, "b")))
    /\ UNCHANGED << token, remote, nextId, edits, peer >>

\* The sync route as it would be if the pull ran on a copy of the store: its
\* result is reported, the store keeps its rows.
SyncGotOnCopy(r) ==
    /\ req[r].pc = "dl_get" /\ req[r].op = "sync"
    /\ \E driverThrows \in BOOLEAN :
          /\ Content(req[r].fileId).hasTables \/ ~driverThrows
          /\ \E res \in { importDatabaseData(db, Content(req[r].fileId), TRUE,
                                              driverThrows) } :
                /\ db' = db
                /\ SetReq(r, PushPhase(Pulled(req[r], res.result), db))
    /\ UNCHANGED << token, remote, nextId, edits, peer >>

\* POST /api/sync/sync after files.get: the pull (merge import), then the
\* export and the call of the upload, all before the next await.
SyncGot(r) ==
    /\ req[r].pc = "dl_get" /\ req[r].op = "sync"
    /\ \E driverThrows \in BOOLEAN :
          /\ Content(req[r].fileId).hasTables \/ ~driverThrows
          /\ \E res \in { importDatabaseData(db, Content(req[r].fileId), TRUE,
                                              driverThrows) } :
                /\ db' = res.db
                /\ SetReq(r, PushPhase(Pulled(req[r], res.result), res.db))
    /\ UNCHANGED << token, remote, nextId, edits, peer >>

\* uploadToGoogleDrive after findBackupFile: update the object found, or create.
UploadFind(r) ==
    /\ req[r].pc = "up_find"
    /\ \E id \in FoundFiles :
          SetReq(r, IF id # 0 THEN [req[r] EXCEPT !.pc = "up_update", !.fileId = id]
                    ELSE [req[r] EXCEPT !.pc = "up_create"])
    /\ UNCHANGED << db, token, remote, nextId, edits, peer >>

\* The response of export and sync once the upload returned the object `id`.
Uploaded(q, id) ==
    Finished(q, [q.resp EXCEPT !.status = 200, !.file = id, !.pushed = (q.op = "sync")])

\* The upload as it would be if it created a new object although one was found.
UploadUpdateAsNew(r) ==
    /\ req[r].pc = "up_update"
    /\ remote' = remote \cup { File(nextId, req[r].doc) }
    /\ nextId' = nextId + 1
    /\ SetReq(r, Uploaded(req[r], nextId))
    /\ UNCHANGED << db, token, edits, peer >>

\* The update as it would be if the object kept what an earlier call of this
\* device wrote to it.
UploadUpdateFirstWins(r) ==
    /\ req[r].pc = "up_update"
    /\ remote' = IF \E o \in Requests : /\ req[o].pc = "done" /\ req[o].resp.status = 200
                                        /\ req[o].resp.file = req[r].fileId
                 THEN remote
                 ELSE { IF f.id = req[r].fileId THEN File(f.id, req[r].doc) ELSE f
                        : f \in remote }
    /\ SetReq(r, Uploaded(req[r], req[r].fileId))
    /\ UNCHANGED << db, token, nextId, edits, peer >>

\* drive.files.update answered
UploadUpdate(r) ==
    /\ req[r].pc = "up_update"
    /\ remote' = { IF f.id = req[r].fileId
                   THEN File(f.id, req[r].doc)
                   ELSE f : f \in remote }
    /\ SetReq(r, Uploaded(req[r], req[r].fileId))
    /\ UNCHANGED << db, token, nextId, edits, peer >>

\* drive.files.create answered
UploadCreate(r) ==
    /\ req[r].pc = "up_create"
    /\ remote' = remote \cup { File(nextId, req[r].doc) }
    /\ nextId' = nextId + 1
    /\ SetReq(r, Uploaded(req[r], nextId))
    /\ UNCHANGED << db, token, edits, peer >>

\* The catch blocks as they would be if the answer to a failed sync kept what
\* the pull had recorded.
RemoteFailReporting(r, code) ==
    /\ req[r].pc \in RemotePcs
    /\ token' = IF code = 401 /\ req[r].op # "preview" THEN "none" ELSE token
    /\ SetReq(r, [Finished(req[r],
                            [req[r].resp EXCEPT
                                !.status = IF code = 401 /\ req[r].op # "preview"
                                           THEN 401 ELSE 500,
                                !.error = IF code = 401 /\ req[r].op # "preview"
                                          THEN "Session expired, please reconnect"
                                          ELSE "error.message"])
                     EXCEPT !.err = code])
    /\ UNCHANGED << db, remote, nextId, edits, peer >>

\* The catch blocks as they would be if a failure other than 401 sent the
\* request back to its first remote call.
RemoteFailRetrying(r, code) ==
    /\ req[r].pc \in RemotePcs
    /\ IF code = 401 /\ req[r].op # "preview"
       THEN /\ token' = "none"
            /\ SetReq(r, [Respond(req[r], 401, "Session expired, please reconnect")
                             EXCEPT !.err = code])
       ELSE /\ token' = token
            /\ SetReq(r, [req[r] EXCEPT
                             !.pc = IF req[r].pc \in { "dl_find", "dl_get" }
                                    THEN "dl_find" ELSE "up_find"])
    /\ UNCHANGED << db, remote, nextId, edits, peer >>

\* A remote call throws an error with error.code = code: the catch blocks.
RemoteFail(r, code) ==
    /\ req[r].pc \in RemotePcs
    /\ IF code = 401 /\ req[r].op # "preview"
       THEN /\ token' = "none"
            /\ SetReq(r, [Respond(req[r], 401, "Session expired, please reconnect")
                             EXCEPT !.err = code])
       ELSE /\ token' = token
            /\ SetReq(r, [Respond(req[r], 500, "error.message") EXCEPT !.err = code])
    /\ UNCHANGED << db, remote, nextId, edits, peer >>

(***************************************************************************)
(* The system: one device, its token file, the account's hidden area.      *)
(***************************************************************************)
\* The device once the OAuth credentials were saved through the settings page.
Base == saveCredentialsToDatabase(InitialDatabase)

\* Stores the device can start from: fresh, or one intern with one report.
LocalStores == { Base, CreateReport(CreateIntern(Base, "a"), 1, 5) }

\* A store another session of the account exported earlier: intern 1 renamed
\* "b", three reports of 7 hours, the first one deleted again.
EarlierStore ==
    DeleteReport(
        CreateReport(CreateReport(CreateReport(CreateIntern(Base, "b"), 1, 7), 1, 7), 1, 7),
        1)

\* What the hidden area can hold at the start: nothing, an object that is no
\* snapshot, or the earlier export.
HiddenAreas ==
    { {},
      { File(1, MalformedDoc) },
      { File(1, exportDatabaseData(EarlierStore)) } }

\* A second device that was installed and never connected to the account.
Unconnected == Device(InitialDatabase, "none", [ r \in Requests |-> IdleRequest ])

Init ==
    /\ db \in LocalStores
    /\ token = "valid"
    /\ remote \in HiddenAreas
    /\ nextId = Cardinality(remote) + 1
    /\ req = [ r \in Requests |-> IdleRequest ]
    /\ edits = 0
    /\ peer = Unconnected

Next ==
    \/ PostIntern
    \/ PutIntern
    \/ DeleteInternReq
    \/ PostReport
    \/ DeleteReportReq
    \/ PostProject
    \/ PostTask
    \/ \E r \in Requests : StartExport(r)
    \/ \E r \in Requests : StartPreview(r)
    \/ \E r \in Requests : StartImport(r)
    \/ \E r \in Requests : StartSync(r)
    \/ \E r \in Requests : DownloadFind(r)
    \/ \E r \in Requests : PreviewGot(r)
    \/ \E r \in Requests : ImportGot(r)
    \/ \E r \in Requests : SyncGot(r)
    \/ \E r \in Requests : UploadFind(r)
    \/ \E r \in Requests : UploadUpdate(r)
    \/ \E r \in Requests : UploadCreate(r)
    \/ \E r \in Requests, code \in ErrorCodes : RemoteFail(r, code)

Spec == Init /\ [][Next]_vars

(***************************************************************************)
(* The device serving its requests one after the other, started from a     *)
(* wider range of stores, backup documents and token files.                *)
(***************************************************************************)
\* A store in which table t does not exist.
DropTable(d, t) ==
    Database(ByTable([ x \in TableSet |-> IF x = t THEN {} ELSE d.rows[x] ]),
             d.seq,
             ByTable([ x \in TableSet |-> IF x = t THEN << >> ELSE d.cols[x] ]))

\* One intern with one report; the same with a project, its assignment and a task.
Reported == CreateReport(CreateIntern(Base, "a"), 1, 5)
Staffed == CreateTask(CreateProject(Reported, "a", << 1 >>), "a", JsNum(1), JsNum(1))

InputStores == { Base, Reported, Staffed, DropTable(Reported, "weekly_reports") }

\* data.tables[table] holding an array / a document with the given tables.
TableEntry(rows) == [array |-> TRUE, rows |-> rows]
NotAnArray == [array |-> FALSE, rows |-> << >>]
Snapshot(tables) ==
    [exportedAt |-> Now, version |-> "1.0", hasTables |-> TRUE, tables |-> tables]

WithColumn(row, c, v) == [ x \in DOMAIN row \cup {c} |-> IF x = c THEN v ELSE row[x] ]

\* The earlier export.
SnapshotDoc == exportDatabaseData(EarlierStore)

\* The export of a deployment with a newer schema: interns rows carry a column
\* the live table lacks, and intern_notes rows have none of the live columns.
DriftedDoc ==
    Snapshot([ t \in TableSet |->
        IF t = "interns"
        THEN TableEntry([ i \in 1..Len(SnapshotDoc.tables[t].rows) |->
                            WithColumn(SnapshotDoc.tables[t].rows[i], "nickname", JsStr("n")) ])
        ELSE IF t = "intern_notes"
        THEN TableEntry(<< [ c \in {"legacy"} |-> JsStr("x") ] >>)
        ELSE SnapshotDoc.tables[t] ])

\* A document without the weekly_reports key and with a non-array under tasks.
PartialDoc ==
    Snapshot([ t \in TableSet \ {"weekly_reports"} |->
        IF t = "tasks" THEN NotAnArray ELSE SnapshotDoc.tables[t] ])

\* A document with rows that violate NOT NULL, the key's type and a foreign
\* key, each followed by rows that violate nothing.
BrokenRowsDoc ==
    Snapshot([ t \in TableSet |->
        IF t = "interns"
        THEN TableEntry(<< [id |-> JsNum(3), name |-> JsNull],
                           [id |-> JsStr("x"), name |-> JsStr("c")],
                           [id |-> JsNum(4), name |-> JsStr("d")] >>)
        ELSE IF t = "weekly_reports"
        THEN TableEntry(<< [id |-> JsNum(1), intern_id |-> JsNum(9),
                            week_start |-> JsStr(Now), week_end |-> JsStr(Now)],
                           [id |-> JsNum(2), intern_id |-> JsNum(4),
                            week_start |-> JsStr(Now), week_end |-> JsStr(Now)] >>)
        ELSE TableEntry(<< >>) ])

\* A document with a row that carries no primary key.
KeylessDoc ==
    Snapshot([ t \in TableSet |->
        IF t = "interns" THEN TableEntry(<< [name |-> JsStr("c")] >>)
        ELSE TableEntry(<< >>) ])

InputDocs == { SnapshotDoc, DriftedDoc, PartialDoc, BrokenRowsDoc, KeylessDoc }

\* The token file: none, a token with the drive.appdata scope, a token with
\* other scopes only, a token without a scope field.
TokenFiles == { "none", "valid", "wrongscope", "noscope" }

InitInputs ==
    /\ \/ /\ db \in InputStores
          /\ remote \in { { File(1, doc) } : doc \in InputDocs }
          /\ token = "valid"
       \/ /\ db = Reported
          /\ remote = {}
          /\ token \in TokenFiles
    /\ nextId = Cardinality(remote) + 1
    /\ req = [ r \in Requests |-> IdleRequest ]
    /\ edits = 0
    /\ peer = Unconnected

\* No other request is under way.
Serial(r) == \A o \in Requests \ {r} : req[o].pc \in { "idle", "done" }

SerialExport(r) == Serial(r) /\ StartExport(r)
SerialPreview(r) == Serial(r) /\ StartPreview(r)
SerialImport(r) == Serial(r) /\ StartImport(r)
SerialSync(r) == Serial(r) /\ StartSync(r)

NextSerial ==
    \/ \E r \in Requests : SerialExport(r)
    \/ \E r \in Requests : SerialPreview(r)
    \/ \E r \in Requests : SerialImport(r)
    \/ \E r \in Requests : SerialSync(r)
    \/ \E r \in Requests : DownloadFind(r)
    \/ \E r \in Requests : PreviewGot(r)
    \/ \E r \in Requests : ImportGot(r)
    \/ \E r \in Requests : SyncGot(r)
    \/ \E r \in Requests : UploadFind(r)
    \/ \E r \in Requests : UploadUpdate(r)
    \/ \E r \in Requests : UploadCreate(r)

SerialSpec == InitInputs /\ [][NextSerial]_vars

(***************************************************************************)
(* Two devices of one account, each with its own store, token file and     *)
(* server, sharing the hidden area.  The variables db, token and req are   *)
(* those of the device whose server is being followed; the other device    *)
(* takes its place when no request is under way.  Both sync, one request   *)
(* at a time, and nothing is entered on either.                            *)
(***************************************************************************)
\* The stores the devices start with: the same schema, rows that differ
\* under the same keys, rows only one of them has.
DeviceStores == { Reported, Staffed, EarlierStore }

\* What the hidden area holds before the first sync.
SharedAreas == { {}, { File(1, SnapshotDoc) }, { File(1, BrokenRowsDoc) } }

InitDevices ==
    /\ db \in DeviceStores
    /\ token = "valid"
    /\ remote \in SharedAreas
    /\ nextId = Cardinality(remote) + 1
    /\ req = [ r \in Requests |-> IdleRequest ]
    /\ edits = 0
    /\ peer \in { Device(d, "valid", [ r \in Requests |-> IdleRequest ])
                   : d \in DeviceStores }

\* The other device's server is the one followed from here on.
SwitchDevice ==
    /\ \A r \in Requests : req[r].pc \in { "idle", "done" }
    /\ db' = peer.db
    /\ token' = peer.token
    /\ req' = peer.req
    /\ peer' = Device(db, token, req)
    /\ UNCHANGED << remote, nextId, edits >>

NextDevices ==
    \/ SwitchDevice
    \/ \E r \in Requests : SerialSync(r)
    \/ \E r \in Requests : DownloadFind(r)
    \/ \E r \in Requests : SyncGot(r)
    \/ \E r \in Requests : UploadFind(r)
    \/ \E r \in Requests : UploadUpdate(r)
    \/ \E r \in Requests : UploadCreate(r)

DevicesSpec == InitDevices /\ [][NextDevices]_vars

(***************************************************************************)
(* Properties.  Steps of a request r, read off two successive states.      *)
(***************************************************************************)
\* r's download arrived and importDatabaseData ran (import or sync route).
Pulls(r) ==
    /\ req[r].pc = "dl_get" /\ req[r].op \in { "import", "sync" }
    /\ req'[r].pc \in { "done", "up_find" } /\ req'[r].err = 0

PullsMerging(r) == Pulls(r) /\ (req[r].op = "sync" \/ req[r].merge)

\* r is a sync whose findBackupFile found nothing.
NoBackupSync(r) ==
    req[r].pc = "dl_find" /\ req[r].op = "sync" /\ req'[r].pc = "up_find"

\* r's upload returned.
UploadDone(r) ==
    /\ req[r].pc \in { "up_update", "up_create" }
    /\ req'[r].pc = "done" /\ req'[r].err = 0

\* The rows a document holds for table t.
RowsOf(doc, t) ==
    IF doc.hasTables /\ t \in DOMAIN doc.tables /\ doc.tables[t].array
    THEN SeqToSet(doc.tables[t].rows) ELSE {}

\* The primary keys among them.
KeysOf(doc, t) == { row[PK(t)] : row \in { x \in RowsOf(doc, t) : PK(t) \in DOMAIN x } }

Exported(rows) == { ExportRow(x) : x \in rows }

HasTransactionError(result) ==
    \E i \in 1..Len(result.errors) : result.errors[i] = << "transaction", "failed" >>

\* C1: a merge import (the import route with merge, or the pull of sync) keeps
\* every local row whose primary key is not among the snapshot's rows of its
\* table: the row is in the store afterwards with the same column values.
MergeKeepsLocalRows ==
    [][ \A r \in Requests :
          PullsMerging(r) =>
             \A t \in TableSet :
                \A row \in db.rows[t] :
                   ToJs(row[PK(t)]) \notin KeysOf(Content(req[r].fileId), t)
                      => row \in db'.rows[t] ]_vars

\* The local rows of t a snapshot does not have (A), the snapshot rows whose
\* key is local with other values (B), the snapshot rows whose key is not
\* local (C).
OnlyLocal(d, doc, t) ==
    { row \in d.rows[t] : ToJs(row[PK(t)]) \notin KeysOf(doc, t) }
Changed(d, doc, t) ==
    { x \in RowsOf(doc, t) :
         /\ x \notin Exported(d.rows[t])
         /\ \E row \in d.rows[t] : ToJs(row[PK(t)]) = x[PK(t)] }
OnlyRemote(d, doc, t) ==
    { x \in RowsOf(doc, t) : \A row \in d.rows[t] : ToJs(row[PK(t)]) # x[PK(t)] }

\* C2: a sync that finds a backup, for every table where the local store has
\* a row A the snapshot lacks, the snapshot a row B that is local with other
\* values and a row C that is not local: after the pull the table holds A
\* unchanged, B with the snapshot's values and C; the document pushed holds
\* exactly these rows; the upload stores that document and the response says
\* backupExisted, pulled, pushed.
SyncMergesBothWays ==
    [][ \A r \in Requests :
          /\ (Pulls(r) /\ req[r].op = "sync" /\ req'[r].resp.result.success) =>
                LET doc == Content(req[r].fileId)
                IN  \A t \in TableSet :
                       ( /\ OnlyLocal(db, doc, t) # {}
                         /\ Changed(db, doc, t) # {}
                         /\ OnlyRemote(db, doc, t) # {} )
                       => /\ Exported(db'.rows[t])
                                = Exported(OnlyLocal(db, doc, t)) \cup RowsOf(doc, t)
                          /\ RowsOf(req'[r].doc, t) = Exported(db'.rows[t])
          /\ (UploadDone(r) /\ req[r].op = "sync" /\ req[r].resp.result.success) =>
                /\ req'[r].resp.status = 200
                /\ req'[r].resp.backupExisted /\ req'[r].resp.pulled
                /\ req'[r].resp.pushed
                /\ \E f \in remote' : f.id = req'[r].resp.file /\ f.content = req[r].doc
      ]_vars

\* C3: a sync that finds no backup runs no import and leaves the store as it
\* is; the document it pushes holds, for every table, exactly the local rows;
\* when the upload returns, the response is backupExisted=false, pulled=false,
\* pullResult=null, pushed=true and the hidden area holds the returned object
\* with that document.
SyncWithoutBackup ==
    [][ \A r \in Requests :
          /\ NoBackupSync(r) =>
                /\ remote = {}
                /\ db' = db
                /\ req'[r].resp = NoResponse
                /\ req'[r].doc.hasTables
                /\ \A t \in SeqToSet(exportTables) :
                      RowsOf(req'[r].doc, t) = Exported(db.rows[t])
          /\ (UploadDone(r) /\ req[r].op = "sync" /\ ~req[r].resp.backupExisted) =>
                /\ req'[r].resp = [NoResponse EXCEPT !.status = 200, !.pushed = TRUE,
                                                     !.file = req'[r].resp.file]
                /\ \E f \in remote' : f.id = req'[r].resp.file /\ f.content = req[r].doc
      ]_vars

SyncWithoutBackupDone ==
    \E r \in Requests :
       /\ req[r].pc = "done" /\ req[r].op = "sync" /\ req[r].resp.status = 200
       /\ ~req[r].resp.backupExisted /\ ~req[r].resp.pulled /\ req[r].resp.pushed
       /\ \E f \in remote : f.id = req[r].resp.file /\ RowsOf(f.content, "interns") # {}

\* C4: when the transaction driver throws in importDatabaseData, whatever the
\* loops wrote before, the store is the one before the call and the result
\* has success=false and a transaction-level error in errors.
ThrowRollsBack ==
    \A f \in remote : \A merge \in BOOLEAN :
       f.content.hasTables =>
          \A res \in { importDatabaseData(db, f.content, merge, TRUE) } :
              /\ res.db = db
              /\ ~res.result.success
              /\ HasTransactionError(res.result)

\* An import request that answered with a transaction error after its loops
\* had inserted interns, on a store that now holds none of them.
ThrowAfterWrites ==
    \E r \in Requests :
       /\ req[r].pc = "done" /\ req[r].op = "import"
       /\ HasTransactionError(req[r].resp.result)
       /\ "interns" \in DOMAIN req[r].resp.result.imported
       /\ req[r].resp.result.imported["interns"] > 0
       /\ db.rows["interns"] = {}

\* C5: the document a sync pushes is made after its pull: it holds, for every
\* table, exactly the rows of the store as the merge import left it, and the
\* upload stores that document.
PushExportsMergedState ==
    [][ \A r \in Requests :
          /\ (Pulls(r) /\ req[r].op = "sync") =>
                /\ req'[r].pc = "up_find"
                /\ req'[r].doc.hasTables
                /\ \A t \in SeqToSet(exportTables) :
                      RowsOf(req'[r].doc, t) = Exported(db'.rows[t])
          /\ (UploadDone(r) /\ req[r].op = "sync") =>
                \E f \in remote' : f.id = req'[r].resp.file /\ f.content = req[r].doc
      ]_vars

\* A sync about to push a document with a pulled intern ("b") and a local
\* intern the snapshot did not have.
PushOfMergedState ==
    \E r \in Requests :
       /\ req[r].pc = "up_find" /\ req[r].op = "sync" /\ req[r].resp.pulled
       /\ \E x, y \in RowsOf(req[r].doc, "interns") :
             /\ x["id"] = JsNum(1) /\ x["name"] = JsStr("b")
             /\ y["id"] = JsNum(2)

\* C6: a sync whose pull fails (success=false: no `tables`, or a failed
\* transaction) goes on: it exports the local store and uploads it, and its
\* response has pulled=false, backupExisted=true, pushed=true.
FailedPullStillPushes ==
    [][ \A r \in Requests :
          /\ (Pulls(r) /\ req[r].op = "sync" /\ ~req'[r].resp.result.success) =>
                /\ req'[r].pc = "up_find"
                /\ db' = db
                /\ \A t \in SeqToSet(exportTables) :
                      RowsOf(req'[r].doc, t) = Exported(db.rows[t])
                /\ req'[r].resp.backupExisted /\ ~req'[r].resp.pulled
          /\ (UploadDone(r) /\ req[r].op = "sync" /\ req[r].resp.backupExisted
                /\ ~req[r].resp.pulled) =>
                /\ req'[r].resp.status = 200
                /\ req'[r].resp.backupExisted /\ ~req'[r].resp.pulled
                /\ req'[r].resp.pushed
                /\ \E f \in remote' : f.id = req'[r].resp.file /\ f.content = req[r].doc
      ]_vars

FailedPullPushed ==
    \E r \in Requests :
       /\ req[r].pc = "done" /\ req[r].op = "sync" /\ req[r].resp.status = 200
       /\ req[r].resp.backupExisted /\ ~req[r].resp.pulled /\ req[r].resp.pushed
       /\ HasTransactionError(req[r].resp.result)
       /\ \E f \in remote : f.id = req[r].resp.file /\ RowsOf(f.content, "interns") # {}

\* C7: the hidden area never holds more than one backup object, whatever
\* export and sync requests overlap.
AtMostOneBackup == Cardinality(remote) <= 1

\* C8: an upload that found an object replaces its content and returns the
\* same id, creating nothing; an upload that found none creates exactly one
\* object, holding the document.
UploadInPlaceOrCreateOne ==
    [][ \A r \in Requests :
          /\ (req[r].pc = "up_find" /\ req'[r].pc = "up_update") =>
                \E f \in remote : f.id = req'[r].fileId
          /\ (req[r].pc = "up_find" /\ req'[r].pc = "up_create") => remote = {}
          /\ (UploadDone(r) /\ req[r].pc = "up_update") =>
                /\ req'[r].resp.file = req[r].fileId
                /\ { f.id : f \in remote' } = { f.id : f \in remote }
                /\ Cardinality(remote') = Cardinality(remote)
                /\ \A f \in remote' :
                      IF f.id = req[r].fileId THEN f.content = req[r].doc
                      ELSE f \in remote
          /\ (UploadDone(r) /\ req[r].pc = "up_create") =>
                /\ req'[r].resp.file \notin { f.id : f \in remote }
                /\ remote' = remote \cup { File(req'[r].resp.file, req[r].doc) }
      ]_vars

\* Two uploads done one after the other: both returned object 1, the only one.
UploadedTwiceInPlace ==
    /\ remote # {} /\ \A f \in remote : f.id = 1 /\ f.content.hasTables
    /\ \A r \in Requests :
          /\ req[r].pc = "done" /\ req[r].op = "export"
          /\ req[r].resp.status = 200 /\ req[r].resp.file = 1

\* C9: a request of any of the four routes whose remote call was rejected with
\* code 401 answers 401 'Session expired, please reconnect', and the token is
\* deleted, so that the status route reports connected=false.
RejectedSessionIsCleared ==
    \A r \in Requests :
       (req[r].pc = "done" /\ req[r].err = 401) =>
          /\ req[r].resp.status = 401
          /\ req[r].resp.error = "Session expired, please reconnect"
          /\ token = "none"
          /\ ~StatusConnected(db, token)

\* A store with every table empty, and the stores a round trip may start from.
EmptyStore ==
    Database(NoRows, ByTable([ t \in TableSet |-> 0 ]), InitialDatabase.cols)

\* C10: importing the export of the store with merge=false, into an empty
\* store or a freshly initialised one of the same schema, yields for every
\* table exactly the rows of the store, skips nothing and reports no error.
ExportImportRoundTrip ==
    \A target \in { EmptyStore, InitialDatabase } :
       \A res \in { importDatabaseData(target, exportDatabaseData(db), FALSE, FALSE) } :
           /\ \A t \in SeqToSet(exportTables) : res.db.rows[t] = db.rows[t]
           /\ \A t \in SeqToSet(exportTables) : res.result.skipped[t] = 0
           /\ res.result.errors = << >>
           /\ res.result.success

\* A store with interns, a report and a task whose round trip gives its rows.
RoundTripOfPopulatedStore ==
    /\ db.rows["interns"] # {} /\ db.rows["weekly_reports"] # {}
    /\ db.rows["tasks"] # {} /\ db.rows["activity_log"] # {}
    /\ importDatabaseData(EmptyStore, exportDatabaseData(db), FALSE, FALSE).db.rows = db.rows

CarriesKeys(doc) ==
    \A t \in TableSet : \A x \in RowsOf(doc, t) : PK(t) \in DOMAIN x /\ x[PK(t)] # JsNull

Replaces(r) ==
    /\ Pulls(r) /\ req[r].op = "import" /\ ~req[r].merge
    /\ req'[r].resp.result.success

\* The keys of snapshot row x that are columns of the live table.
Live(x, validColumns) == DOMAIN x \cap SeqToSet(validColumns)

\* The stored row holds the values of snapshot row x in the columns x supplies.
StoredFrom(row, x, t, validColumns) ==
    \A c \in Live(x, validColumns) : row[c] = Affinity(c, Bind(x[c]))

\* C12: after a successful replace import every table holds as many rows as
\* were counted in imported[table] (none for a table the snapshot lacks), and
\* each of them has the values of a snapshot row of that table: no local row
\* remains unless the snapshot re-inserted it.
ReplaceLeavesOnlySnapshotRows ==
    [][ \A r \in Requests :
          Replaces(r) =>
             \A t \in TableSet :
                /\ Cardinality(db'.rows[t]) =
                      IF t \in DOMAIN req'[r].resp.result.imported
                      THEN req'[r].resp.result.imported[t] ELSE 0
                /\ \A row \in db'.rows[t] :
                      \E x \in RowsOf(Content(req[r].fileId), t) :
                          StoredFrom(row, x, t, getTableColumns(db, t))
      ]_vars

\* A replace import was served: the settings rows every device starts with
\* are gone (the snapshot has none) and the snapshot's intern is in.
ReplacedEverything ==
    \E r \in Requests :
       /\ req[r].pc = "done" /\ req[r].op = "import" /\ req[r].resp.result.success
       /\ req[r].resp.result.imported["interns"] = 1
       /\ db.rows["settings"] = {} /\ db.rows["interns"] # {}

\* r's download arrived and the import ran on a document with `tables`, the
\* transaction driver not failing.
Commits(r) ==
    /\ Pulls(r) /\ Content(req[r].fileId).hasTables
    /\ ~HasTransactionError(req'[r].resp.result)

\* Snapshot row x of table t violates nothing whatever else the document and
\* the store hold: it has its key, its NOT NULL columns, and its references
\* point to such rows of the document.
RECURSIVE Sound(_, _, _)
Sound(doc, t, x) ==
    /\ PK(t) \in DOMAIN x
    /\ x[PK(t)][1] = (IF t = "settings" THEN "string" ELSE "number")
    /\ \A c \in NotNullCols(t) : c \in DOMAIN x /\ x[c] # JsNull
    /\ \A fk \in ForeignKeys(t) :
          (fk.col \in DOMAIN x /\ x[fk.col] # JsNull) =>
             \E p \in RowsOf(doc, fk.parent) :
                 /\ PK(fk.parent) \in DOMAIN p /\ p[PK(fk.parent)] = x[fk.col]
                 /\ Sound(doc, fk.parent, p)

\* No other row of the document has x's key or x's UNIQUE columns.
Unrivalled(doc, t, x) ==
    \A y \in RowsOf(doc, t) \ {x} :
       /\ PK(t) \in DOMAIN y => y[PK(t)] # x[PK(t)]
       /\ \A u \in UniqueKeys(t) :
             \E i \in 1..Len(u) : u[i] \notin DOMAIN y \/ u[i] \notin DOMAIN x
                                  \/ y[u[i]] # x[u[i]]

\* The rows of the document's table t with none of the live columns, and the
\* row errors recorded for t.
Unmatched(doc, t, validColumns) ==
    { i \in 1..Len(doc.tables[t].rows) :
         Live(doc.tables[t].rows[i], validColumns) = {} }
RowErrors(result, t) ==
    { i \in 1..Len(result.errors) : result.errors[i] = << "row", t >> }

\* C13: an import whose transaction commits has success=true whatever rows
\* failed; for every table it went through, each snapshot row is counted once
\* (imported or skipped) and each failed insert is one recorded error and one
\* skip; the rows that violate nothing are stored, also after failed rows.
RowFailuresAreSkipped ==
    [][ \A r \in Requests :
          Commits(r) =>
             LET doc    == Content(req[r].fileId)
                 result == req'[r].resp.result
             IN  /\ result.success
                 /\ \A t \in DOMAIN result.imported :
                       getTableColumns(db, t) # << >> =>
                          /\ result.imported[t] + result.skipped[t]
                                = Len(doc.tables[t].rows)
                          /\ Cardinality(RowErrors(result, t))
                                = result.skipped[t]
                                  - Cardinality(Unmatched(doc, t, getTableColumns(db, t)))
                          /\ \A x \in RowsOf(doc, t) :
                                (Sound(doc, t, x) /\ Unrivalled(doc, t, x)) =>
                                   \E row \in db'.rows[t] :
                                      StoredFrom(row, x, t, getTableColumns(db, t))
      ]_vars

\* An import that answered success with row errors: two interns and one
\* report were skipped, the intern and the report after them are stored.
ImportedAroundFailures ==
    \E r \in Requests :
       /\ req[r].pc = "done" /\ req[r].op = "import" /\ req[r].resp.result.success
       /\ Len(req[r].resp.result.errors) = 3
       /\ "weekly_reports" \in DOMAIN req[r].resp.result.imported
       /\ req[r].resp.result.skipped["interns"] = 2
       /\ req[r].resp.result.imported["interns"] = 1
       /\ req[r].resp.result.skipped["weekly_reports"] = 1
       /\ req[r].resp.result.imported["weekly_reports"] = 1
       /\ \E row \in db.rows["interns"] : row["id"] = IntV(4)
       /\ \E row \in db.rows["weekly_reports"] : row["id"] = IntV(2)

\* Snapshot row x cut down to the live columns (left alone if it has none),
\* and document doc with every row cut down to the live columns of store d.
Narrow(x, validColumns) ==
    IF Live(x, validColumns) = {} THEN x
    ELSE [ c \in Live(x, validColumns) |-> x[c] ]
Narrowed(doc, d) ==
    [ exportedAt |-> doc.exportedAt, version |-> doc.version,
      hasTables |-> doc.hasTables,
      tables |-> [ t \in DOMAIN doc.tables |->
                     [ array |-> doc.tables[t].array,
                       rows  |-> [ i \in 1..Len(doc.tables[t].rows) |->
                                     Narrow(doc.tables[t].rows[i],
                                            getTableColumns(d, t)) ] ] ] ]

\* Snapshot row x has a column the live table lacks, and one it has.
Wider(x, validColumns) ==
    /\ Live(x, validColumns) # {}
    /\ Live(x, validColumns) # DOMAIN x

\* C14: the columns of a snapshot row that the live table lacks have no
\* effect: the import leaves the store and the result it would leave if the
\* rows held their live columns only (so no error is recorded for them); a
\* row with such a column that violates nothing is stored with the values of
\* its live columns, and a table of such rows has imported = the number of
\* its rows and skipped = 0.
UnknownColumnsAreDropped ==
    [][ \A r \in Requests :
          Commits(r) =>
             LET doc    == Content(req[r].fileId)
                 result == req'[r].resp.result
                 merge  == req[r].op = "sync" \/ req[r].merge
             IN  /\ \A res \in { importDatabaseData(db, Narrowed(doc, db), merge, FALSE) } :
                       res.db = db' /\ res.result = result
                 /\ \A t \in DOMAIN result.imported :
                       LET cols   == getTableColumns(db, t)
                           wide   == { x \in RowsOf(doc, t) : Wider(x, cols) }
                           intact == { x \in RowsOf(doc, t) :
                                          Sound(doc, t, x) /\ Unrivalled(doc, t, x) }
                       IN  /\ \A x \in wide \cap intact :
                                 \E row \in db'.rows[t] : StoredFrom(row, x, t, cols)
                           /\ (wide # {} /\ wide \subseteq intact
                                 /\ wide = RowsOf(doc, t)
                                 /\ Cardinality(wide) = Len(doc.tables[t].rows)) =>
                                 /\ result.imported[t] = Len(doc.tables[t].rows)
                                 /\ result.skipped[t] = 0
                                 /\ RowErrors(result, t) = {}
      ]_vars

\* The import of the newer deployment's export was served: its intern, whose
\* row has a column the live table lacks, was counted as imported and is stored.
ImportedNarrowed ==
    \E r \in Requests :
       /\ req[r].pc = "done" /\ req[r].op = "import" /\ req[r].resp.result.success
       /\ \E f \in remote : f.content = DriftedDoc
       /\ req[r].resp.result.imported["interns"] = 1
       /\ req[r].resp.result.skipped["interns"] = 0
       /\ \E row \in db.rows["interns"] : row["id"] = IntV(1) /\ row["name"] = TextV("b")

\* C15: for every table the import goes through, each snapshot row with none
\* of the live columns is counted in skipped[table], also when the live table
\* does not exist (no live columns at all), and then no error is recorded
\* for the table.
UnmatchedRowsAreSkipped ==
    [][ \A r \in Requests :
          Commits(r) =>
             LET doc    == Content(req[r].fileId)
                 result == req'[r].resp.result
             IN  \A t \in DOMAIN result.imported :
                    /\ result.skipped[t]
                          >= Cardinality(Unmatched(doc, t, getTableColumns(db, t)))
                    /\ getTableColumns(db, t) = << >> =>
                          \A i \in 1..Len(result.errors) :
                              result.errors[i] # << "no table", t >>
      ]_vars

\* The tables the document has no array for.
Missing(doc) ==
    { t \in TableSet : t \notin DOMAIN doc.tables \/ ~doc.tables[t].array }

\* C16: an import of a document that has no array for table t completes with
\* success=true, t is in neither imported nor skipped, no error names t, and
\* a merge import leaves the local rows of t as they were.
MissingTablesAreLeftAlone ==
    [][ \A r \in Requests :
          Commits(r) =>
             LET result == req'[r].resp.result
             IN  \A t \in Missing(Content(req[r].fileId)) :
                    /\ result.success
                    /\ t \notin DOMAIN result.imported
                    /\ t \notin DOMAIN result.skipped
                    /\ \A i \in 1..Len(result.errors) : result.errors[i][2] # t
                    /\ (req[r].op = "sync" \/ req[r].merge) => db'.rows[t] = db.rows[t]
      ]_vars

\* The place of table t in an order of the tables.
Position(order, t) == CHOOSE i \in 1..Len(order) : order[i] = t

\* C17: every table a foreign key references comes strictly before the
\* referencing table in importOrder; so a replace import of any backup stores
\* each of its rows whose references point to rows of the backup.
ParentsAreInsertedFirst ==
    /\ \A t \in TableSet : \A fk \in ForeignKeys(t) :
          Position(importOrder, fk.parent) < Position(importOrder, t)
    /\ \A f \in remote :
          f.content.hasTables =>
             \A res \in { importDatabaseData(db, f.content, FALSE, FALSE) } :
                \A t \in { x \in TableSet : getTableColumns(db, x) # << >> } :
                   \A x \in RowsOf(f.content, t) :
                      (Sound(f.content, t, x) /\ Unrivalled(f.content, t, x)) =>
                         \E row \in res.db.rows[t] :
                            StoredFrom(row, x, t, getTableColumns(db, t))

\* An import stored reports together with the intern they reference, without
\* an error.
ImportedChildrenAfterParents ==
    \E r \in Requests :
       /\ req[r].pc = "done" /\ req[r].op = "import" /\ req[r].resp.result.success
       /\ req[r].resp.result.errors = << >>
       /\ "weekly_reports" \in DOMAIN req[r].resp.result.imported
       /\ req[r].resp.result.imported["weekly_reports"] = 2
       /\ \A row \in db.rows["weekly_reports"] :
             \E p \in db.rows["interns"] : p["id"] = row["intern_id"]

\* Store d with every table emptied.
Emptied(d) == Database(NoRows, d.seq, d.cols)

\* C18: the replace-mode DELETEs run over the tables in the reverse of the
\* insertion order, referencing tables before the tables they reference, and
\* all of them before any insert: a replace import leaves the rows that the
\* inserts leave in the store with every table emptied, also when a table
\* does not exist and its DELETE fails.
ReplaceClearsBeforeInserting ==
    [][ /\ \A i \in 1..Len(importOrder) :
              ClearOrder[i] = importOrder[Len(importOrder) + 1 - i]
        /\ \A t \in TableSet : \A fk \in ForeignKeys(t) :
              Position(ClearOrder, t) < Position(ClearOrder, fk.parent)
        /\ \A r \in Requests :
              Replaces(r) =>
                 \A res \in { importDatabaseData(Emptied(db), Content(req[r].fileId),
                                                 FALSE, FALSE) } :
                     /\ db'.rows = res.db.rows
                     /\ req'[r].resp.result = res.result
      ]_vars

\* A replace import was served on a store without the weekly_reports table:
\* the other tables were cleared (no settings row is left) and the import
\* went on (the snapshot's intern is stored).
ReplacedDespiteFailedDelete ==
    \E r \in Requests :
       /\ req[r].pc = "done" /\ req[r].op = "import" /\ req[r].resp.result.success
       /\ getTableColumns(db, "weekly_reports") = << >>
       /\ db.rows["settings"] = {}
       /\ \E row \in db.rows["interns"] : row["id"] = IntV(4)

\* C19: the export of the store, in whatever state, has an array under every
\* table of the exporter's list, which has the same tables as importOrder:
\* empty for a table whose read fails, the rows of the table otherwise; so
\* has every document a request is about to upload.
ExportHasEveryTable ==
    /\ SeqToSet(exportTables) = SeqToSet(importOrder)
    /\ \A doc \in { exportDatabaseData(db) } :
          /\ DOMAIN doc.tables = SeqToSet(importOrder)
          /\ \A t \in SeqToSet(exportTables) :
                /\ t \in DOMAIN doc.tables /\ doc.tables[t].array
                /\ IF getTableColumns(db, t) = << >>
                   THEN doc.tables[t].rows = << >>
                   ELSE RowsOf(doc, t) = Exported(db.rows[t])
    /\ \A r \in Requests :
          req[r].pc \in { "up_find", "up_update", "up_create" } =>
             DOMAIN req[r].doc.tables = SeqToSet(importOrder)

\* An export of a store without the weekly_reports table was uploaded: the
\* document has an empty weekly_reports array and the rows of interns.
ExportedDespiteFailedRead ==
    \E r \in Requests : \E f \in remote :
       /\ req[r].pc = "done" /\ req[r].op = "export" /\ req[r].resp.status = 200
       /\ f.id = req[r].resp.file
       /\ getTableColumns(db, "weekly_reports") = << >>
       /\ "weekly_reports" \in DOMAIN f.content.tables
       /\ f.content.tables["weekly_reports"].rows = << >>
       /\ f.content.tables["interns"].rows # << >>

\* C20: while the token file holds a token with a wrong scope or with no
\* scope field, the status route reports connected=false and every request
\* to the export, preview, import and sync routes ends at once with 401
\* 'Not connected to Google Drive'.
UnscopedTokenIsAbsent ==
    [][ /\ token \in { "wrongscope", "noscope" } => ~StatusConnected(db, token)
        /\ \A r \in Requests :
              ( /\ token \in { "wrongscope", "noscope" }
                /\ req[r].pc = "idle" /\ req'[r].pc # "idle" ) =>
                 /\ req'[r].pc = "done"
                 /\ req'[r].resp.status = 401
                 /\ req'[r].resp.error = "Not connected to Google Drive"
      ]_vars

\* C21: a preview request changes neither the store nor the hidden area at
\* any of its steps; a download that returns a document answers 200 with, for
\* each entry of its `tables`, the number of its rows (0 for an entry that is
\* no array); a download that finds no object answers 404 'No backup found in
\* Google Drive', not the 500 of the catch block.
PreviewOnlyReads ==
    [][ \A r \in Requests :
          (req[r].op = "preview" \/ req'[r].op = "preview") /\ req'[r] # req[r] =>
             /\ db' = db /\ remote' = remote /\ nextId' = nextId
             /\ (req[r].pc = "dl_get" /\ req'[r].err = 0) =>
                   LET doc == Content(req[r].fileId)
                   IN  /\ req'[r].pc = "done" /\ req'[r].resp.status = 200
                       /\ DOMAIN req'[r].resp.summary = DOMAIN doc.tables
                       /\ \A t \in DOMAIN doc.tables :
                             req'[r].resp.summary[t] = Cardinality(DOMAIN doc.tables[t].rows)
                       /\ \A t \in Missing(doc) \cap DOMAIN doc.tables :
                             req'[r].resp.summary[t] = 0
             /\ (req[r].pc = "dl_find" /\ req'[r].pc = "done" /\ req'[r].err = 0) =>
                   /\ remote = {}
                   /\ req'[r].resp.status = 404 /\ req'[r].resp.status # 500
                   /\ req'[r].resp.error = "No backup found in Google Drive"
      ]_vars

\* A preview of the partial document was served: one row under interns, 0
\* under tasks (no array), nothing under weekly_reports (no entry); the store
\* and the hidden area are the ones the behaviour started with.
PreviewedPartial ==
    \E r \in Requests :
       /\ req[r].pc = "done" /\ req[r].op = "preview" /\ req[r].resp.status = 200
       /\ remote = { File(1, PartialDoc) }
       /\ req[r].resp.summary["tasks"] = 0
       /\ req[r].resp.summary["interns"] = 1
       /\ req[r].resp.summary["activity_log"] > 1
       /\ "weekly_reports" \notin DOMAIN req[r].resp.summary
       /\ db \in InputStores

\* C22: when the update of an export or sync call completes on an existing
\* object, the object holds the whole document of that call, whatever a call
\* that found the same object wrote before, and the objects keep their ids;
\* a call that found the object and has not updated yet is not disturbed, so
\* its update, coming last, leaves its own document.
LastWriterWins ==
    [][ \A r \in Requests :
          (UploadDone(r) /\ req[r].pc = "up_update") =>
             /\ req[r].op \in { "export", "sync" }
             /\ { f.id : f \in remote' } = { f.id : f \in remote }
             /\ \E f \in remote' : f.id = req[r].fileId
             /\ \A f \in remote' : f.id = req[r].fileId => f.content = req[r].doc
             /\ req'[r].resp.file = req[r].fileId
             /\ \A o \in Requests \ {r} :
                   /\ req'[o] = req[o]
                   /\ (req[o].pc = "up_update" /\ req[o].fileId = req[r].fileId) =>
                         req'[o].doc = req[o].doc /\ req'[o].fileId = req[r].fileId
      ]_vars

\* One call has updated the object with its document while another call,
\* which found the same object, is about to update it with a different one.
InterleavedUpdates ==
    \E r, o \in Requests : \E f \in remote :
       /\ r # o
       /\ req[r].pc = "done" /\ req[r].resp.status = 200 /\ req[r].resp.file = f.id
       /\ req[o].pc = "up_update" /\ req[o].fileId = f.id
       /\ f.content # req[o].doc
       /\ f.content # SnapshotDoc /\ f.content.hasTables
       /\ req[o].doc.tables["interns"].rows # f.content.tables["interns"].rows

\* C23: importDatabaseData on a document without `tables`, under either
\* policy, leaves the store as it is (a replace import clears nothing) and
\* returns success=false, the one error 'Invalid backup format: missing
\* tables', and empty imported and skipped.
InvalidBackupChangesNothing ==
    [][ /\ \A f \in remote : \A merge \in BOOLEAN :
              ~f.content.hasTables =>
                 \A res \in { importDatabaseData(db, f.content, merge, FALSE) } :
                     res.db = db /\ res.result = InvalidFormat
        /\ \A r \in Requests :
              (Pulls(r) /\ ~Content(req[r].fileId).hasTables) =>
                 /\ db' = db
                 /\ ~req'[r].resp.result.success
                 /\ req'[r].resp.result.errors = << << "invalid", "missing tables" >> >>
                 /\ DOMAIN req'[r].resp.result.imported = {}
                 /\ DOMAIN req'[r].resp.result.skipped = {}
      ]_vars

\* An import of the object that is no snapshot was answered with the format
\* error, on a store that still holds its settings, intern and report.
RefusedInvalidBackup ==
    \E r \in Requests :
       /\ req[r].pc = "done" /\ req[r].op = "import"
       /\ req[r].resp.result = InvalidFormat
       /\ remote = { File(1, MalformedDoc) }
       /\ db.rows["settings"] # {} /\ db.rows["interns"] # {}
       /\ db.rows["weekly_reports"] # {}

\* C24: after an import that returned success=true, for every table the
\* snapshot holds an array for, imported[table] + skipped[table] is the
\* number of rows of that array, and imported[table] inserts reached the
\* store (after a replace import the table holds that many rows).
ImportCountsEveryRow ==
    [][ \A r \in Requests :
          (Pulls(r) /\ req'[r].resp.result.success) =>
             LET doc    == Content(req[r].fileId)
                 result == req'[r].resp.result
             IN  \A t \in TableSet \ Missing(doc) :
                    /\ t \in DOMAIN result.imported /\ t \in DOMAIN result.skipped
                    /\ result.imported[t] + result.skipped[t] = Len(doc.tables[t].rows)
                    /\ (req[r].op = "import" /\ ~req[r].merge) =>
                          Cardinality(db'.rows[t]) = result.imported[t]
      ]_vars

\* r is a sync whose pull returned success=true.
PullsIn(r) == Pulls(r) /\ req[r].op = "sync" /\ req'[r].resp.pulled

\* The store holds snapshot row x of table t with the snapshot's values.
Holds(d, t, x) ==
    \E row \in d.rows[t] : \A c \in DOMAIN x : c \in DOMAIN row /\ row[c] = Affinity(c, Bind(x[c]))

\* C25: after a successful pull of a sync, every row of the backup the hidden
\* area held when the call started (the one the call downloads, no other
\* request being under way) is in the local store with the backup's values,
\* whether the store held it before or not, and is in the document the call
\* goes on to push.
SyncRestoresBackupRows ==
    [][ \A r \in Requests :
          PullsIn(r) =>
             \A t \in TableSet : \A x \in RowsOf(Content(req[r].fileId), t) :
                /\ Holds(db', t, x)
                /\ \E y \in RowsOf(req'[r].doc, t) : \A c \in DOMAIN x : y[c] = x[c]
      ]_vars

\* C25 (amended): after a successful pull of a sync, every row of the
\* downloaded backup that carries its key and violates no constraint is in
\* the local store with the backup's values in the columns the live table
\* has, whether the store held it before or not, and the stored row is in the
\* document the call goes on to push.
SyncRestoresImportedRows ==
    [][ \A r \in Requests :
          PullsIn(r) =>
             LET doc == Content(req[r].fileId)
             IN  \A t \in { x \in TableSet : getTableColumns(db, x) # << >> } :
                    \A x \in RowsOf(doc, t) :
                       (Sound(doc, t, x) /\ Unrivalled(doc, t, x)) =>
                          \E row \in db'.rows[t] :
                             /\ StoredFrom(row, x, t, getTableColumns(db, t))
                             /\ ExportRow(row) \in RowsOf(req'[r].doc, t)
      ]_vars

\* A sync was served whose pull skipped rows and brought in an intern and a
\* report the store did not hold; both are in the object it pushed.
RestoredBySync ==
    \E r \in Requests : \E f \in remote :
       /\ req[r].pc = "done" /\ req[r].op = "sync" /\ req[r].resp.status = 200
       /\ req[r].resp.pulled /\ req[r].resp.pushed
       /\ req[r].resp.result.skipped["interns"] = 2
       /\ f.id = req[r].resp.file
       /\ \E row \in db.rows["interns"] :
             row["id"] = IntV(4) /\ ExportRow(row) \in RowsOf(f.content, "interns")
       /\ \E row \in db.rows["weekly_reports"] :
             row["id"] = IntV(2) /\ ExportRow(row) \in RowsOf(f.content, "weekly_reports")

\* The pull of a sync, if there was a backup, succeeded without a skipped row.
CleanPull(resp) ==
    resp.backupExisted =>
       /\ resp.pulled /\ resp.result.errors = << >>
       /\ \A t \in DOMAIN resp.result.skipped : resp.result.skipped[t] = 0

\* Request q is a sync that was served: pulled cleanly, pushed, answered 200.
Synced(q) ==
    /\ q.pc = "done" /\ q.op = "sync" /\ q.resp.status = 200 /\ q.resp.pushed
    /\ CleanPull(q.resp)

\* C26: two devices of the same schema on one hidden area, nothing entered
\* on either, one request at a time, every sync pulling without a failure or
\* a skipped row: when a device completes a sync after an earlier sync of its
\* own and a sync of the other device in between (the hidden area holds what
\* the other device pushed), both stores and the backup object hold the same
\* rows in every table.
DevicesConverge ==
    [][ \A r \in Requests :
          ( /\ UploadDone(r) /\ req[r].op = "sync" /\ CleanPull(req[r].resp)
            /\ \E o \in Requests \ {r} : Synced(req[o])
            /\ \A o \in Requests \ {r} : req[o].pc = "idle" \/ Synced(req[o])
            /\ \E o \in Requests : Synced(peer.req[o])
            /\ \A o \in Requests : peer.req[o].pc = "idle" \/ Synced(peer.req[o])
            /\ remote # {}
            /\ \A f \in remote : f.content = exportDatabaseData(peer.db)
            /\ peer.db.cols = db.cols ) =>
             \A t \in TableSet :
                /\ db'.rows[t] = peer'.db.rows[t]
                /\ \A f \in remote' : RowsOf(f.content, t) = Exported(db'.rows[t])
      ]_vars

\* Each device held rows the other lacked (a project on one, report 3 on the
\* other); one synced twice, the other once, and the stores and the backup
\* object hold the same rows, the project and the report among them.
DevicesConverged ==
    /\ \A r \in Requests : Synced(req[r])
    /\ \E o \in Requests : Synced(peer.req[o])
    /\ \E o \in Requests : peer.req[o].pc = "idle"
    /\ db.rows["projects"] # {}
    /\ \E row \in db.rows["weekly_reports"] : row["id"] = IntV(3)
    /\ db.rows = peer.db.rows
    /\ remote # {}
    /\ \A f \in remote : \A t \in TableSet : RowsOf(f.content, t) = Exported(db.rows[t])

\* The settings row that holds the OAuth credentials.
Credentials(d) ==
    { row \in d.rows["settings"] : row["key"] = TextV("google_oauth_credentials") }

\* C27: when the settings table holds OAuth credentials before
\* importDatabaseData runs (import under either policy, or the pull of a
\* sync), loadCredentialsFromDatabase finds the same credentials afterwards
\* and the configured status is as before.
ImportKeepsCredentials ==
    [][ \A r \in Requests :
          (Pulls(r) /\ loadCredentialsFromDatabase(db)) =>
             /\ loadCredentialsFromDatabase(db')
             /\ \A old \in Credentials(db) : \E new \in Credentials(db') :
                   new["value"] = old["value"]
             /\ createOAuth2Client(db') = createOAuth2Client(db)
      ]_vars

\* C28: the step of a sync that runs the merge import also takes the export
\* and calls the upload: whatever requests are suspended and whatever was
\* entered before, the document handed to the upload is the export of the
\* store as the import transaction left it, and no other request moves and
\* nothing is entered within that step.
PullAndExportAreOneStep ==
    [][ \A r \in Requests :
          ( /\ req[r].pc = "dl_get" /\ req[r].op = "sync"
            /\ req'[r] # req[r] /\ req'[r].err = 0 ) =>
             /\ req'[r].pc = "up_find"
             /\ \E thrown \in BOOLEAN :
                   \E res \in { importDatabaseData(db, Content(req[r].fileId), TRUE, thrown) } :
                      /\ req'[r].resp.result = res.result
                      /\ db' = res.db
                      /\ req'[r].doc = exportDatabaseData(res.db)
             /\ req'[r].doc = exportDatabaseData(db')
             /\ edits' = edits
             /\ \A o \in Requests \ {r} : req'[o] = req[o]
      ]_vars

\* A sync has pulled and is about to upload the export of the store, after a
\* data-entry request was served and while another request is suspended in a
\* remote call.
PulledAmongOthers ==
    \E r, o \in Requests :
       /\ r # o
       /\ req[r].pc = "up_find" /\ req[r].op = "sync" /\ req[r].resp.pulled
       /\ req[o].pc \in RemotePcs
       /\ edits > 0
       /\ req[r].doc = exportDatabaseData(db)
       /\ \E row \in db.rows["interns"] : row["name"] = TextV("b")
       /\ \E row \in db.rows["interns"] : row["id"] = IntV(2)

\* The remote calls of the push phase.
UploadPcs == { "up_find", "up_update", "up_create" }

\* C29: when a remote call of the push phase of a sync fails after the pull
\* succeeded, the store keeps the rows the pull committed, the hidden area
\* keeps its content, and the request ends there with a 401 or 500 answer
\* that carries the error only: no pulled, pullResult, backupExisted or
\* pushed.
FailedPushKeepsPull ==
    [][ \A r \in Requests :
          ( /\ req[r].op = "sync" /\ req[r].pc \in UploadPcs /\ req[r].resp.pulled
            /\ req'[r] # req[r] /\ req'[r].err # 0 ) =>
             /\ db' = db
             /\ remote' = remote /\ nextId' = nextId
             /\ req'[r].pc = "done"
             /\ req'[r].resp.status \in { 401, 500 }
             /\ req'[r].resp.status = req'[r].err
             /\ req'[r].resp.error # ""
             /\ req'[r].resp = [NoResponse EXCEPT !.status = req'[r].resp.status,
                                                  !.error = req'[r].resp.error]
      ]_vars

\* A sync pulled the earlier export into the store and its upload then
\* failed: the answer is the error alone, the store holds the pulled intern
\* and reports, the hidden area still holds the earlier export.
PushFailedAfterPull ==
    \E r \in Requests :
       /\ req[r].pc = "done" /\ req[r].op = "sync" /\ req[r].err = 500
       /\ req[r].resp.status = 500 /\ ~req[r].resp.hasPullResult
       /\ remote = { File(1, SnapshotDoc) }
       /\ \E row \in db.rows["interns"] : row["id"] = IntV(1) /\ row["name"] = TextV("b")
       /\ \E row \in db.rows["weekly_reports"] : row["id"] = IntV(3)
       /\ \A o \in Requests \ {r} : req[o].pc = "idle"
       /\ edits = 0

\* How far a request has come.
Stage(pc) ==
    CASE pc = "idle" -> 0 [] pc = "dl_find" -> 1 [] pc = "dl_get" -> 2
      [] pc = "up_find" -> 3 [] pc \in { "up_update", "up_create" } -> 4
      [] OTHER -> 5

\* C30: when a remote call of an export, import or sync request fails with a
\* code other than 401, the token file is left as it is and the request ends
\* with 500 and the message of the error; a request only moves forward, so
\* that it downloads at most once and uploads at most once.
OtherFailuresAnswer500 ==
    [][ \A r \in Requests :
          /\ ( /\ req[r].pc \in RemotePcs /\ req[r].op \in { "export", "import", "sync" }
               /\ req'[r].err \notin { 0, 401 } ) =>
                 /\ token' = token
                 /\ req'[r].pc = "done"
                 /\ req'[r].resp.status = 500
                 /\ req'[r].resp.error = "error.message"
                 /\ db' = db /\ remote' = remote
          /\ req'[r] # req[r] => Stage(req'[r].pc) > Stage(req[r].pc)
      ]_vars

\* An import and an export both failed in a remote call with a code other
\* than 401: both were answered 500 and the device is still connected.
FailedWithoutSigningOut ==
    /\ \E r \in Requests : req[r].op = "import" /\ req[r].err = 500
    /\ \E r \in Requests : req[r].op = "export" /\ req[r].err = 500
    /\ \A r \in Requests :
          /\ req[r].pc = "done" /\ req[r].err = 500
          /\ req[r].resp.status = 500 /\ req[r].resp.error = "error.message"
    /\ token = "valid" /\ StatusConnected(db, token)

====
